---- MODULE Spec2Model ----
(***************************************************************************)
(* Connection pool, transaction/savepoint bookkeeping and schema-batch     *)
(* execution of mcp-sqlite-tools (clients/connection-manager.ts,           *)
(* clients/transaction-manager.ts, clients/query-executor.ts).             *)
(*                                                                         *)
(* All handlers are synchronous JavaScript: each one runs to completion,   *)
(* so each is one atomic action.  The maintenance timer callback runs      *)
(* between handlers.  The storage engine (better-sqlite3 / SQLite) is      *)
(* modelled per database file by its documented transaction semantics.     *)
(***************************************************************************)
EXTENDS Integers, Sequences, FiniteSets, TLC

\* ------------------------------------------------------------------ bounds
MaxTicks == 1       \* clock ticks in a behaviour
MaxOpens == 2       \* engine connections opened on one path in a behaviour
MaxTxns == 2        \* transaction ids generated in a behaviour
MaxUse == 4         \* acquisitions of one pool entry
MaxDepth == 2       \* savepoint_count reached by nested begins
MaxBatch == 2       \* statements in one schema batch
MaxRecords == 2     \* records in one bulk insert
MaxBatchSize == 2   \* batch_size of a bulk insert
MaxSegments == 3    \* segments in a raw path
MaxChunks == 3      \* chunks between the semicolons of a schema text
MaxUniform == 3     \* records of one shape in a bulk insert
MaxTokens == 5      \* tokens in a SQL text
MaxLoops == 5       \* iterations of a batch loop that are followed
MaxKey == 2         \* largest number used as a parameter key

\* ------------------------------------------------------- program constants
idle_timeout_minutes == 30

max_age_minutes == 30     \* default of cleanup_stale_transactions

\* One clock tick: just longer than the idle timeout.
TickMinutes == idle_timeout_minutes + 1

\* ------------------------------------------------------------------ inputs
Paths == {"a.db", "b.db"}          \* resolved database paths
Tables == {"t1", "t2"}
Rows == {"r1"}
BulkRows == {"r1", "r2"}            \* rows a bulk insert can carry
Effects == Tables \cup Rows \cup BulkRows   \* what a database file can contain

\* A statement: its leading keyword, the object it creates, and whether the
\* engine accepts its text (a malformed statement fails at prepare).
CreateTable(t) == [verb |-> "create", obj |-> t, valid |-> TRUE]
MalformedCreate == [verb |-> "create", obj |-> "t2", valid |-> FALSE]
InsertRow(r) == [verb |-> "insert", obj |-> r, valid |-> TRUE]
DDL == {CreateTable(t) : t \in Tables} \cup {MalformedCreate}
DML == {InsertRow(r) : r \in Rows}
Stmts == DDL \cup DML

\* Transaction-control statements a caller can write as a query text; a
\* savepoint statement names the savepoint sp_0.  And a read-only statement.
ControlVerbs == {"begin", "commit", "rollback", "savepoint", "release"}
ControlStmts == [verb : ControlVerbs, obj : {"sp_0"}, valid : {TRUE}]
SelectOne == [verb |-> "select", obj |-> "1", valid |-> TRUE]

RECURSIVE SeqsUpTo(_, _)
SeqsUpTo(S, n) ==
    IF n = 0 THEN {<<>>}
    ELSE LET shorter == SeqsUpTo(S, n - 1)
         IN  shorter \cup {Append(q, x) : q \in shorter, x \in S}

\* The texts given to the schema tool, split into statements: every sequence
\* of DDL statements up to the bound, and texts holding a statement that is
\* not DDL, alone or after a DDL statement.
Batches ==
    SeqsUpTo(DDL, MaxBatch)
        \cup {<<s>> : s \in DML} \cup {<<d, s>> : d \in DDL, s \in DML}

\* A schema text as split(';') cuts it: each chunk is a statement body, or
\* nothing but white space, with or without an SQL comment next to it.
Blank == [verb |-> "", obj |-> "", valid |-> TRUE]
CreateIndex == [verb |-> "create", obj |-> "idx1", valid |-> TRUE]
SqlChunk(body, comment) == [body |-> body, comment |-> comment]
Chunks ==
    {SqlChunk(CreateTable(t), FALSE) : t \in Tables}
        \cup {SqlChunk(CreateIndex, TRUE), SqlChunk(Blank, FALSE),
              SqlChunk(Blank, TRUE)}
SqlTexts == SeqsUpTo(Chunks, MaxChunks)

\* A record of a bulk insert: the row it carries, the columns it has ("full",
\* "partial": one column fewer, "none": an empty object) and whether the engine
\* accepts the row (a constraint can reject it).
Record(r) == [obj |-> r, cols |-> "full", valid |-> TRUE]
PartialRecord == [obj |-> "r2", cols |-> "partial", valid |-> TRUE]
EmptyRecord == [obj |-> "r2", cols |-> "none", valid |-> TRUE]
RejectedRecord == [obj |-> "r2", cols |-> "full", valid |-> FALSE]
Records == {Record(r) : r \in BulkRows}
               \cup {PartialRecord, EmptyRecord, RejectedRecord}
DataSets == SeqsUpTo(Records, MaxRecords) \ {<<>>}

\* Data of uniform records, each with every column and accepted by the engine.
UniformData == SeqsUpTo({Record(r) : r \in BulkRows}, MaxUniform) \ {<<>>}
BatchSizes == 1..MaxBatchSize

\* The orders in which a Map over the paths can be iterated.
PathOrders ==
    {o \in [1..Cardinality(Paths) -> Paths] : \A p \in Paths : \E i \in DOMAIN o : o[i] = p}

NoConn == [database |-> <<>>]
NoTxn == [id |-> 0]
NoDatabase == [set |-> FALSE]

\* No request handler is on the call stack.
Idle == [op |-> "idle"]

VARIABLES
    connections,          \* pool: path -> ConnectionMetadata or NoConn
    active_transactions,  \* path -> TransactionState or NoTxn
    engine,               \* path -> state of the engine connection and file
    file_exists,          \* path -> the database file is on disk
    now,                  \* Date.now(), in minutes
    handles_opened,       \* path -> engine connections opened on it so far
    txns_generated,       \* transaction ids generated so far
    max_connections,      \* POOL_CONFIG.max_connections
    SQLITE_ALLOW_ABSOLUTE_PATHS,  \* the configuration flag of that name
    current_database,     \* the database context: a validated path or NoDatabase
    running               \* the handler or function on the call stack, or Idle

\* The configuration and the database context.
ctxvars == <<SQLITE_ALLOW_ABSOLUTE_PATHS, current_database>>

vars == <<connections, active_transactions, engine, file_exists, now,
          handles_opened, txns_generated, max_connections,
          SQLITE_ALLOW_ABSOLUTE_PATHS, current_database, running>>

\* ------------------------------------------------------------------ engine
\* One engine connection on a database file.  txn: "none" (autocommit),
\* "begin" (opened by BEGIN) or "savepoint" (opened by a SAVEPOINT issued in
\* autocommit mode).  sps: the savepoint stack, oldest first, each with the
\* content to restore.  content: what the connection sees; disk: what is
\* committed.
FreshEngine == [txn |-> "none", sps |-> <<>>, content |-> {}, disk |-> {}]

Ok(e) == [ok |-> TRUE, e |-> e]
Fail(e) == [ok |-> FALSE, e |-> e]

\* db.exec('BEGIN') / db.exec('BEGIN IMMEDIATE'): an error inside a transaction.
EngBegin(e) ==
    IF e.txn # "none" THEN Fail(e) ELSE Ok([e EXCEPT !.txn = "begin"])

\* db.exec('COMMIT'): an error when no transaction is active.
EngCommit(e) ==
    IF e.txn = "none" THEN Fail(e)
    ELSE Ok([e EXCEPT !.txn = "none", !.sps = <<>>, !.disk = e.content])

\* db.exec('ROLLBACK'): an error when no transaction is active.
EngRollback(e) ==
    IF e.txn = "none" THEN Fail(e)
    ELSE Ok([e EXCEPT !.txn = "none", !.sps = <<>>, !.content = e.disk])

\* db.exec('SAVEPOINT sp_n'): pushes a savepoint; in autocommit mode it also
\* opens a transaction.
EngSavepoint(e, n) ==
    Ok([e EXCEPT !.txn = IF e.txn = "none" THEN "savepoint" ELSE e.txn,
                 !.sps = Append(e.sps, [name |-> n, snap |-> e.content])])

\* The most recent savepoint named sp_n, 0 when there is none.
LastSavepoint(e, n) ==
    LET hits == {i \in 1..Len(e.sps) : e.sps[i].name = n}
    IN  IF hits = {} THEN 0 ELSE CHOOSE i \in hits : \A j \in hits : j <= i

\* db.exec('RELEASE SAVEPOINT sp_n'): removes the most recent sp_n and every
\* later savepoint; releasing the outermost savepoint of a transaction that a
\* SAVEPOINT opened commits it.
EngRelease(e, n) ==
    LET i == LastSavepoint(e, n)
    IN  IF i = 0 THEN Fail(e)
        ELSE IF i = 1 /\ e.txn = "savepoint"
             THEN Ok([e EXCEPT !.txn = "none", !.sps = <<>>, !.disk = e.content])
             ELSE Ok([e EXCEPT !.sps = SubSeq(e.sps, 1, i - 1)])

\* ROLLBACK TO that pops the savepoints and restores nothing.
EngRollbackTo_keeps_content(e, n) ==
    LET hits == {i \in 1..Len(e.sps) : e.sps[i].name = n}
        i == IF hits = {} THEN 0 ELSE CHOOSE k \in hits : \A j \in hits : j <= k
    IN  IF i = 0 THEN Fail(e)
        ELSE Ok([e EXCEPT !.sps = SubSeq(e.sps, 1, i)])

\* db.exec('ROLLBACK TO SAVEPOINT sp_n'): restores the content saved by the most
\* recent sp_n and removes the later savepoints; sp_n itself stays on the stack
\* and the transaction stays open.
EngRollbackTo(e, n) ==
    LET i == LastSavepoint(e, n)
    IN  IF i = 0 THEN Fail(e)
        ELSE Ok([e EXCEPT !.content = e.sps[i].snap, !.sps = SubSeq(e.sps, 1, i)])

\* database.close(): an open transaction is rolled back.
EngClose(e) == [e EXCEPT !.txn = "none", !.sps = <<>>, !.content = e.disk]

\* db.prepare(statement).run() of a transaction-control statement: the engine
\* runs it like the same command given to db.exec.
EngControl(e, stmt) ==
    CASE stmt.verb = "begin" -> EngBegin(e)
      [] stmt.verb = "commit" -> EngCommit(e)
      [] stmt.verb = "rollback" -> EngRollback(e)
      [] stmt.verb = "savepoint" -> EngSavepoint(e, 0)
      [] stmt.verb = "release" -> EngRelease(e, 0)

\* db.prepare(statement).run(): a malformed statement and a CREATE of an
\* existing table fail and change nothing; in autocommit mode a successful
\* statement is committed at once.
EngRun(e, stmt) ==
    IF stmt.verb \in ControlVerbs THEN EngControl(e, stmt)
    ELSE IF ~stmt.valid \/ (stmt.verb = "create" /\ stmt.obj \in e.content)
    THEN Fail(e)
    ELSE LET c == e.content \cup {stmt.obj}
         IN  Ok([e EXCEPT !.content = c,
                          !.disk = IF e.txn = "none" THEN c ELSE e.disk])

\* ------------------------------------------------------------------- paths
\* A path is its sequence of segments.  A raw path, as a caller writes it, is
\* absolute (from the filesystem root) or relative.
Segments == {"..", ".", "d", "t.db", "..x"}
RawPaths == [abs : BOOLEAN, segs : SeqsUpTo(Segments, MaxSegments)]

\* config.SQLITE_DEFAULT_PATH, already resolved: the directory /d.
SQLITE_DEFAULT_PATH == <<"d">>

\* Normalisation as node:path resolve() does it: "." dropped, ".." removes the
\* segment before it and is dropped at the filesystem root.
RECURSIVE Normalize(_)
Normalize(segs) ==
    IF segs = <<>> THEN <<>>
    ELSE LET front == Normalize(SubSeq(segs, 1, Len(segs) - 1))
             seg == segs[Len(segs)]
         IN  CASE seg = "." -> front
               [] seg = ".." -> IF front = <<>> THEN <<>>
                                ELSE SubSeq(front, 1, Len(front) - 1)
               [] OTHER -> Append(front, seg)

\* resolve(base, path) for a relative path.
Resolve(base, segs) == Normalize(base \o segs)

\* Length of the longest common prefix of two paths.
RECURSIVE CommonPrefix(_, _)
CommonPrefix(a, b) ==
    IF a = <<>> \/ b = <<>> \/ Head(a) # Head(b) THEN 0
    ELSE 1 + CommonPrefix(Tail(a), Tail(b))

\* relative(from, to): one ".." for each segment of from below the common
\* prefix, then the rest of to.
Relative(from, to) ==
    LET f == Normalize(from)
        t == Normalize(to)
        k == CommonPrefix(f, t)
    IN  [i \in 1..(Len(f) - k) |-> ".."] \o SubSeq(t, k + 1, Len(t))

\* relative_path.startsWith('..'): a test on the characters of the string,
\* true of the segment ".." and of a name that begins with two dots.
StartsWithDotDot(rel) == rel # <<>> /\ rel[1] \in {"..", "..x"}

\* The path names a file in or below the directory.
Inside(dir, path) ==
    LET n == Normalize(path)
    IN  Len(n) >= Len(dir) /\ SubSeq(n, 1, Len(dir)) = dir

\* validate_database_path without the test of absolute raw paths.
validate_database_path_abs_unchecked(raw) ==
    LET resolved_path == IF raw.abs THEN raw.segs
                         ELSE Resolve(SQLITE_DEFAULT_PATH, raw.segs)
    IN  IF /\ ~SQLITE_ALLOW_ABSOLUTE_PATHS
           /\ StartsWithDotDot(Relative(SQLITE_DEFAULT_PATH, resolved_path))
        THEN [ok |-> FALSE, err |-> "security", path |-> <<>>]
        ELSE [ok |-> TRUE, err |-> "", path |-> resolved_path]

\* validate_database_path(path): the resolved path, or a security error.  An
\* absolute raw path is taken as written; a relative one is resolved against
\* the default directory.  On POSIX relative() never returns an absolute path.
validate_database_path(raw) ==
    LET resolved_path == IF raw.abs THEN raw.segs
                         ELSE Resolve(SQLITE_DEFAULT_PATH, raw.segs)
    IN  IF raw.abs /\ ~SQLITE_ALLOW_ABSOLUTE_PATHS
        THEN [ok |-> FALSE, err |-> "security", path |-> <<>>]
        ELSE IF /\ ~SQLITE_ALLOW_ABSOLUTE_PATHS
                /\ StartsWithDotDot(Relative(SQLITE_DEFAULT_PATH, resolved_path))
        THEN [ok |-> FALSE, err |-> "security", path |-> <<>>]
        ELSE [ok |-> TRUE, err |-> "", path |-> resolved_path]

\* set_current_database(databasePath): validates, then stores the resolved
\* path; a rejected path raises before the assignment.  context: the database
\* context after the call.
set_current_database(raw) ==
    LET v == validate_database_path(raw)
    IN  IF v.ok THEN [ok |-> TRUE, context |-> [set |-> TRUE, path |-> v.path]]
        ELSE [ok |-> FALSE, context |-> current_database]

\* A caller sets the database context.
SetCurrentDatabase(raw) ==
    /\ current_database' = set_current_database(raw).context
    /\ UNCHANGED <<connections, active_transactions, engine, file_exists, now,
                   handles_opened, txns_generated, max_connections,
                   SQLITE_ALLOW_ABSOLUTE_PATHS,
                   running>>

\* The optional database argument of a tool: absent, or a raw path.  The empty
\* string counts as absent in every test the code makes of it.
Arguments == {[given |-> FALSE]} \cup [given : {TRUE}, raw : RawPaths]

\* process.env['SQLITE_DEFAULT_DATABASE']: unset, a name in the default
\* directory or a path that leaves it.
DefaultDatabases ==
    {a \in Arguments : ~a.given \/ (~a.raw.abs /\ a.raw.segs \in {<<"t.db">>, <<"..">>})}

\* resolve_database_name that looks at the context before the argument.
resolve_database_name_context_first(database, default_database) ==
    IF current_database.set
    THEN [ok |-> TRUE, err |-> "", path |-> current_database.path]
    ELSE IF database.given THEN validate_database_path(database.raw)
    ELSE IF default_database.given THEN validate_database_path(default_database.raw)
    ELSE validate_database_path([abs |-> FALSE, segs |-> <<"default.db">>])

\* resolve_database_name(database_path): the argument validated, else the
\* context as it is stored, else SQLITE_DEFAULT_DATABASE validated, else
\* default.db validated.
resolve_database_name(database, default_database) ==
    IF database.given THEN validate_database_path(database.raw)
    ELSE IF current_database.set
    THEN [ok |-> TRUE, err |-> "", path |-> current_database.path]
    ELSE IF default_database.given THEN validate_database_path(default_database.raw)
    ELSE validate_database_path([abs |-> FALSE, segs |-> <<"default.db">>])

\* The first two lines of every tool handler (setup_database_context in the
\* admin tools): resolve_database_name(database), then set_current_database
\* when an argument was given.  path: the database the tool goes on with.
setup_database_context(database, default_database) ==
    LET r == resolve_database_name(database, default_database)
    IN  IF ~r.ok THEN [ok |-> FALSE, path |-> <<>>, context |-> current_database]
        ELSE [ok |-> TRUE, path |-> r.path,
              context |-> IF database.given
                          THEN set_current_database(database.raw).context
                          ELSE current_database]

\* A tool is called with or without a database argument.
SetupDatabaseContext(database, default_database) ==
    /\ current_database' = setup_database_context(database, default_database).context
    /\ UNCHANGED <<connections, active_transactions, engine, file_exists, now,
                   handles_opened, txns_generated, max_connections,
                   SQLITE_ALLOW_ABSOLUTE_PATHS,
                   running>>

\* clear_current_database().
ClearCurrentDatabase ==
    /\ current_database' = NoDatabase
    /\ UNCHANGED <<connections, active_transactions, engine, file_exists, now,
                   handles_opened, txns_generated, max_connections,
                   SQLITE_ALLOW_ABSOLUTE_PATHS,
                   running>>

\* -------------------------------------------------------------------- pool
\* The pool and what it owns, as one value the pool functions transform.
World == [c |-> connections, e |-> engine, f |-> file_exists, h |-> handles_opened]

PoolPaths(c) == {p \in Paths : c[p] # NoConn}

\* IdleEntries testing the time the entry was created.
IdleEntries_by_creation(c) ==
    {p \in PoolPaths(c) : c[p].created_at < now - idle_timeout_minutes}

\* cleanup_idle_connections: closes and removes every entry whose last use is
\* older than the cutoff.
IdleEntries(c) ==
    {p \in PoolPaths(c) : c[p].last_used < now - idle_timeout_minutes}

cleanup_idle_connections(w) ==
    LET idle == IdleEntries(w.c)
    IN  [w EXCEPT !.c = [p \in Paths |-> IF p \in idle THEN NoConn ELSE w.c[p]],
                  !.e = [p \in Paths |-> IF p \in idle THEN EngClose(w.e[p])
                                         ELSE w.e[p]]]

\* The loop of cleanup_idle_connections over the entries still to visit, with
\* its counter.  stuck: the paths whose database.close() raises; the catch
\* block logs the error, and the entry stays and is not counted.
RECURSIVE IdleLoop(_, _, _)
IdleLoop(w, todo, stuck) ==
    IF todo = {} THEN [w |-> w, cleaned |-> 0]
    ELSE LET path == CHOOSE p \in todo : TRUE
         IN  IF path \in IdleEntries(w.c) /\ path \notin stuck
             THEN LET rest == IdleLoop([w EXCEPT !.c[path] = NoConn,
                                                 !.e[path] = EngClose(w.e[path])],
                                       todo \ {path}, stuck)
                  IN  [rest EXCEPT !.cleaned = @ + 1]
             ELSE IdleLoop(w, todo \ {path}, stuck)

\* The pool hit of open_database: the entry's handle, its last use and use
\* count refreshed.
reuse_connection(w, path) ==
    [ok |-> TRUE, err |-> "", db |-> w.c[path].database,
     w |-> [w EXCEPT !.c[path].last_used = now, !.c[path].use_count = @ + 1]]

\* The tail of open_database without the test of create: a missing file is
\* always created.
open_connection_always_creates(w, path, create) ==
    LET db == <<path, w.h[path] + 1>>
    IN  [ok |-> TRUE, err |-> "", db |-> db,
         w |-> [w EXCEPT !.c[path] = [database |-> db, created_at |-> now,
                                      last_used |-> now, use_count |-> 1],
                         !.f[path] = TRUE,
                         !.h[path] = @ + 1]]

\* The tail of open_database: an error when the file is missing and create is
\* false, else a new engine connection stored in the pool with fresh metadata.
open_connection(w, path, create) ==
    IF ~w.f[path] /\ ~create
    THEN [ok |-> FALSE, err |-> "missing", db |-> <<>>, w |-> w]
    ELSE LET db == <<path, w.h[path] + 1>>
         IN  [ok |-> TRUE, err |-> "", db |-> db,
              w |-> [w EXCEPT !.c[path] = [database |-> db, created_at |-> now,
                                           last_used |-> now, use_count |-> 1],
                              !.f[path] = TRUE,
                              !.h[path] = @ + 1]]

\* open_database without the pool lookup: every acquire goes on to open.
open_database_no_lookup(w, path, create) ==
    LET w1 == IF Cardinality(PoolPaths(w.c)) >= max_connections
              THEN cleanup_idle_connections(w) ELSE w
    IN  IF Cardinality(PoolPaths(w1.c)) >= max_connections
        THEN [ok |-> FALSE, err |-> "capacity", db |-> <<>>, w |-> w1]
        ELSE open_connection(w1, path, create)

\* open_database without the pool limit: a miss always goes on to open.
open_database_no_limit(w, path, create) ==
    IF w.c[path] # NoConn THEN reuse_connection(w, path)
    ELSE open_connection(w, path, create)

\* open_database(path, create): the handle of the pool entry, opened on demand;
\* a miss on a full pool runs idle eviction and fails when the pool stays full.
\* Returns ok, the error kind, the handle and the world after the call.
open_database(w, path, create) ==
    IF w.c[path] # NoConn THEN reuse_connection(w, path)
    ELSE LET w1 == IF Cardinality(PoolPaths(w.c)) >= max_connections
                   THEN cleanup_idle_connections(w) ELSE w
         IN  IF Cardinality(PoolPaths(w1.c)) >= max_connections
             THEN [ok |-> FALSE, err |-> "capacity", db |-> <<>>, w |-> w1]
             ELSE open_connection(w1, path, create)

\* The model's bounds allow one more acquisition of the path.
CanAcquire(path) ==
    IF connections[path] = NoConn THEN handles_opened[path] < MaxOpens
    ELSE connections[path].use_count < MaxUse

SetWorld(w) ==
    /\ connections' = w.c
    /\ engine' = w.e
    /\ file_exists' = w.f
    /\ handles_opened' = w.h

\* A caller acquires the handle of path: open_database(path, create).
OpenDatabase(path, create) ==
    /\ CanAcquire(path)
    /\ SetWorld(open_database(World, path, create).w)
    /\ UNCHANGED <<active_transactions, now, txns_generated, max_connections, ctxvars, running>>

\* close_database(path): closes and removes the entry when there is one.
close_database(w, path) ==
    IF w.c[path] = NoConn THEN w
    ELSE [w EXCEPT !.c[path] = NoConn, !.e[path] = EngClose(w.e[path])]

CloseDatabase(path) ==
    /\ SetWorld(close_database(World, path))
    /\ UNCHANGED <<active_transactions, now, txns_generated, max_connections, ctxvars, running>>

\* ------------------------------------------------------------ transactions
has_active_transaction(path) == active_transactions[path] # NoTxn

\* The nested branch of begin_transaction: SAVEPOINT sp_<count> on the pooled
\* handle, the count raised, the existing id returned.  A failed open_database
\* or engine call is re-thrown with the transaction map untouched.
begin_savepoint(w, txs, path) ==
    LET o == open_database(w, path, TRUE)
        n == txs[path].savepoint_count
        x == EngSavepoint(o.w.e[path], n)
    IN  IF ~o.ok
        THEN [ok |-> FALSE, err |-> o.err, id |-> 0, db |-> <<>>,
              cmds |-> <<>>, w |-> o.w, txs |-> txs]
        ELSE IF ~x.ok
        THEN [ok |-> FALSE, err |-> "engine", id |-> 0, db |-> o.db,
              cmds |-> <<<<"SAVEPOINT", n>>>>, w |-> o.w, txs |-> txs]
        ELSE [ok |-> TRUE, err |-> "", id |-> txs[path].id, db |-> o.db,
              cmds |-> <<<<"SAVEPOINT", n>>>>,
              w |-> [o.w EXCEPT !.e[path] = x.e],
              txs |-> [txs EXCEPT ![path].savepoint_count = n + 1]]

\* The top-level branch of begin_transaction: a fresh id, BEGIN IMMEDIATE on
\* the pooled handle and a new TransactionState at count 0.
begin_top_level(w, txs, path) ==
    LET id == txns_generated + 1
        o == open_database(w, path, TRUE)
        x == EngBegin(o.w.e[path])
    IN  IF ~o.ok
        THEN [ok |-> FALSE, err |-> o.err, id |-> 0, db |-> <<>>,
              cmds |-> <<>>, w |-> o.w, txs |-> txs]
        ELSE IF ~x.ok
        THEN [ok |-> FALSE, err |-> "engine", id |-> 0, db |-> o.db,
              cmds |-> <<<<"BEGIN IMMEDIATE", 0>>>>, w |-> o.w, txs |-> txs]
        ELSE [ok |-> TRUE, err |-> "", id |-> id, db |-> o.db,
              cmds |-> <<<<"BEGIN IMMEDIATE", 0>>>>,
              w |-> [o.w EXCEPT !.e[path] = x.e],
              txs |-> [txs EXCEPT ![path] =
                          [id |-> id, database_path |-> path,
                           start_time |-> now, savepoint_count |-> 0]]]

\* begin_transaction without the check for an existing TransactionState.
begin_transaction_always_top(w, txs, path) ==
    begin_top_level(w, txs, path)

\* begin_transaction whose nested branch returns a newly generated id.
begin_transaction_fresh_id(w, txs, path) ==
    IF txs[path] # NoTxn
    THEN LET r == begin_savepoint(w, txs, path)
         IN  [r EXCEPT !.id = IF r.ok THEN txns_generated + 1 ELSE 0]
    ELSE begin_top_level(w, txs, path)

\* begin_transaction(database_path): a savepoint when the path has a
\* TransactionState, else a new top-level transaction.
begin_transaction(w, txs, path) ==
    IF txs[path] # NoTxn THEN begin_savepoint(w, txs, path)
    ELSE begin_top_level(w, txs, path)

BeginTransaction(path) ==
    /\ CanAcquire(path)
    /\ IF has_active_transaction(path)
       THEN /\ active_transactions[path].savepoint_count < MaxDepth
            /\ Len(engine[path].sps) <= MaxDepth
       ELSE txns_generated < MaxTxns
    /\ LET r == begin_transaction(World, active_transactions, path)
       IN  /\ SetWorld(r.w)
           /\ active_transactions' = r.txs
           /\ txns_generated' = IF has_active_transaction(path) THEN txns_generated
                                ELSE txns_generated + 1
    /\ UNCHANGED <<now, max_connections, ctxvars, running>>

\* commit_transaction that commits the whole transaction at any depth.
commit_transaction_whole(w, txs, path) ==
    IF txs[path] = NoTxn
    THEN [ok |-> FALSE, err |-> "no_txn", id |-> 0, db |-> <<>>, cmds |-> <<>>,
          w |-> w, txs |-> txs]
    ELSE LET o == open_database(w, path, TRUE)
             x == EngCommit(o.w.e[path])
         IN  IF ~o.ok
             THEN [ok |-> FALSE, err |-> o.err, id |-> 0, db |-> <<>>, cmds |-> <<>>,
                   w |-> o.w, txs |-> txs]
             ELSE IF ~x.ok
             THEN [ok |-> FALSE, err |-> "engine", id |-> 0, db |-> o.db,
                   cmds |-> <<<<"COMMIT", 0>>>>, w |-> o.w, txs |-> txs]
             ELSE [ok |-> TRUE, err |-> "", id |-> txs[path].id, db |-> o.db,
                   cmds |-> <<<<"COMMIT", 0>>>>,
                   w |-> [o.w EXCEPT !.e[path] = x.e],
                   txs |-> [txs EXCEPT ![path] = NoTxn]]

\* commit_transaction without the check for a TransactionState: it acquires
\* the handle and issues COMMIT whatever the transaction map holds.
commit_transaction_unchecked(w, txs, path) ==
    LET o == open_database(w, path, TRUE)
        x == EngCommit(o.w.e[path])
    IN  IF ~o.ok
        THEN [ok |-> FALSE, err |-> o.err, id |-> 0, db |-> <<>>, cmds |-> <<>>,
              w |-> o.w, txs |-> txs]
        ELSE IF ~x.ok
        THEN [ok |-> FALSE, err |-> "engine", id |-> 0, db |-> o.db,
              cmds |-> <<<<"COMMIT", 0>>>>, w |-> o.w, txs |-> txs]
        ELSE [ok |-> TRUE, err |-> "", id |-> txs[path].id, db |-> o.db,
              cmds |-> <<<<"COMMIT", 0>>>>,
              w |-> [o.w EXCEPT !.e[path] = x.e],
              txs |-> [txs EXCEPT ![path] = NoTxn]]

\* commit_transaction(database_path): an error when the path has no
\* TransactionState; at savepoint_count > 0 RELEASE of the most recent savepoint
\* and one level less; at 0 COMMIT and the state removed.  A failed engine call
\* is re-thrown with the transaction map untouched.
commit_transaction(w, txs, path) ==
    IF txs[path] = NoTxn
    THEN [ok |-> FALSE, err |-> "no_txn", id |-> 0, db |-> <<>>, cmds |-> <<>>,
          w |-> w, txs |-> txs]
    ELSE LET o == open_database(w, path, TRUE)
             n == txs[path].savepoint_count
         IN  IF ~o.ok
             THEN [ok |-> FALSE, err |-> o.err, id |-> 0, db |-> <<>>, cmds |-> <<>>,
                   w |-> o.w, txs |-> txs]
             ELSE IF n > 0
             THEN LET x == EngRelease(o.w.e[path], n - 1)
                      cmds == <<<<"RELEASE SAVEPOINT", n - 1>>>>
                  IN  IF ~x.ok
                      THEN [ok |-> FALSE, err |-> "engine", id |-> 0, db |-> o.db,
                            cmds |-> cmds, w |-> o.w, txs |-> txs]
                      ELSE [ok |-> TRUE, err |-> "", id |-> txs[path].id, changes |-> 0,
                            db |-> o.db, cmds |-> cmds,
                            w |-> [o.w EXCEPT !.e[path] = x.e],
                            txs |-> [txs EXCEPT ![path].savepoint_count = n - 1]]
             ELSE LET x == EngCommit(o.w.e[path])
                      cmds == <<<<"COMMIT", 0>>>>
                  IN  IF ~x.ok
                      THEN [ok |-> FALSE, err |-> "engine", id |-> 0, db |-> o.db,
                            cmds |-> cmds, w |-> o.w, txs |-> txs]
                      ELSE [ok |-> TRUE, err |-> "", id |-> txs[path].id, changes |-> 0,
                            db |-> o.db, cmds |-> cmds,
                            w |-> [o.w EXCEPT !.e[path] = x.e],
                            txs |-> [txs EXCEPT ![path] = NoTxn]]

\* rollback_transaction that updates the TransactionState before it calls
\* the engine: the update stays when the engine call raises.
rollback_transaction_state_first(w, txs, path) ==
    IF txs[path] = NoTxn
    THEN [ok |-> FALSE, err |-> "no_txn", id |-> 0, db |-> <<>>, cmds |-> <<>>,
          w |-> w, txs |-> txs]
    ELSE LET o == open_database(w, path, TRUE)
             n == txs[path].savepoint_count
             x == IF n > 0 THEN EngRollbackTo(o.w.e[path], n - 1)
                  ELSE EngRollback(o.w.e[path])
             cmds == IF n > 0 THEN <<<<"ROLLBACK TO SAVEPOINT", n - 1>>>>
                     ELSE <<<<"ROLLBACK", 0>>>>
             after == IF n > 0 THEN [txs EXCEPT ![path].savepoint_count = n - 1]
                      ELSE [txs EXCEPT ![path] = NoTxn]
         IN  IF ~o.ok
             THEN [ok |-> FALSE, err |-> o.err, id |-> 0, db |-> <<>>, cmds |-> <<>>,
                   w |-> o.w, txs |-> txs]
             ELSE IF ~x.ok
             THEN [ok |-> FALSE, err |-> "engine", id |-> 0, db |-> o.db,
                   cmds |-> cmds, w |-> o.w, txs |-> after]
             ELSE [ok |-> TRUE, err |-> "", id |-> txs[path].id,
                   db |-> o.db, cmds |-> cmds,
                   w |-> [o.w EXCEPT !.e[path] = x.e], txs |-> after]

\* rollback_transaction that drops the TransactionState without telling the
\* engine: the engine's transaction stays open.
rollback_transaction_state_only(w, txs, path) ==
    IF txs[path] = NoTxn
    THEN [ok |-> FALSE, err |-> "no_txn", id |-> 0, db |-> <<>>, cmds |-> <<>>,
          w |-> w, txs |-> txs]
    ELSE LET o == open_database(w, path, TRUE)
         IN  IF ~o.ok
             THEN [ok |-> FALSE, err |-> o.err, id |-> 0, db |-> <<>>, cmds |-> <<>>,
                   w |-> o.w, txs |-> txs]
             ELSE [ok |-> TRUE, err |-> "", id |-> txs[path].id, db |-> o.db,
                   cmds |-> <<>>, w |-> o.w,
                   txs |-> IF txs[path].savepoint_count > 0
                           THEN [txs EXCEPT ![path].savepoint_count = @ - 1]
                           ELSE [txs EXCEPT ![path] = NoTxn]]

\* rollback_transaction(database_path): as commit_transaction, with ROLLBACK TO
\* the most recent savepoint at savepoint_count > 0 and ROLLBACK at 0.
rollback_transaction(w, txs, path) ==
    IF txs[path] = NoTxn
    THEN [ok |-> FALSE, err |-> "no_txn", id |-> 0, db |-> <<>>, cmds |-> <<>>,
          w |-> w, txs |-> txs]
    ELSE LET o == open_database(w, path, TRUE)
             n == txs[path].savepoint_count
         IN  IF ~o.ok
             THEN [ok |-> FALSE, err |-> o.err, id |-> 0, db |-> <<>>, cmds |-> <<>>,
                   w |-> o.w, txs |-> txs]
             ELSE IF n > 0
             THEN LET x == EngRollbackTo(o.w.e[path], n - 1)
                      cmds == <<<<"ROLLBACK TO SAVEPOINT", n - 1>>>>
                  IN  IF ~x.ok
                      THEN [ok |-> FALSE, err |-> "engine", id |-> 0, db |-> o.db,
                            cmds |-> cmds, w |-> o.w, txs |-> txs]
                      ELSE [ok |-> TRUE, err |-> "", id |-> txs[path].id,
                            db |-> o.db, cmds |-> cmds,
                            w |-> [o.w EXCEPT !.e[path] = x.e],
                            txs |-> [txs EXCEPT ![path].savepoint_count = n - 1]]
             ELSE LET x == EngRollback(o.w.e[path])
                      cmds == <<<<"ROLLBACK", 0>>>>
                  IN  IF ~x.ok
                      THEN [ok |-> FALSE, err |-> "engine", id |-> 0, db |-> o.db,
                            cmds |-> cmds, w |-> o.w, txs |-> txs]
                      ELSE [ok |-> TRUE, err |-> "", id |-> txs[path].id,
                            db |-> o.db, cmds |-> cmds,
                            w |-> [o.w EXCEPT !.e[path] = x.e],
                            txs |-> [txs EXCEPT ![path] = NoTxn]]

CommitTransaction(path) ==
    /\ has_active_transaction(path) => CanAcquire(path)
    /\ LET r == commit_transaction(World, active_transactions, path)
       IN  /\ SetWorld(r.w)
           /\ active_transactions' = r.txs
    /\ UNCHANGED <<now, txns_generated, max_connections, ctxvars, running>>

RollbackTransaction(path) ==
    /\ has_active_transaction(path) => CanAcquire(path)
    /\ LET r == rollback_transaction(World, active_transactions, path)
       IN  /\ SetWorld(r.w)
           /\ active_transactions' = r.txs
    /\ UNCHANGED <<now, txns_generated, max_connections, ctxvars, running>>

\* SweepStale without its catch block: the first rollback that raises ends
\* the sweep.
RECURSIVE SweepStale_stops_at_error(_, _, _, _, _)
SweepStale_stops_at_error(w, txs, cutoff, order, i) ==
    IF i > Len(order) THEN [w |-> w, txs |-> txs, cleaned |-> 0]
    ELSE LET p == order[i]
         IN  IF txs[p] # NoTxn /\ txs[p].start_time < cutoff
             THEN LET r == rollback_transaction(w, txs, p)
                      rest == SweepStale_stops_at_error(r.w, r.txs, cutoff, order, i + 1)
                  IN  IF r.ok THEN [rest EXCEPT !.cleaned = @ + 1]
                      ELSE [w |-> r.w, txs |-> r.txs, cleaned |-> 0]
             ELSE SweepStale_stops_at_error(w, txs, cutoff, order, i + 1)

\* The loop of cleanup_stale_transactions over the transaction map, iterated in
\* the given order, from position i on: one rollback_transaction call for each
\* state that started before the cutoff, an error of the call only logged.
RECURSIVE SweepStale(_, _, _, _, _)
SweepStale(w, txs, cutoff, order, i) ==
    IF i > Len(order) THEN [w |-> w, txs |-> txs, cleaned |-> 0]
    ELSE LET p == order[i]
         IN  IF txs[p] # NoTxn /\ txs[p].start_time < cutoff
             THEN LET r == rollback_transaction(w, txs, p)
                      rest == SweepStale(r.w, r.txs, cutoff, order, i + 1)
                  IN  IF r.ok THEN [rest EXCEPT !.cleaned = @ + 1] ELSE rest
             ELSE SweepStale(w, txs, cutoff, order, i + 1)

\* cleanup_stale_transactions(max_age_minutes).
cleanup_stale_transactions(w, txs, max_age, order) ==
    SweepStale(w, txs, now - max_age, order, 1)

\* A caller of the module runs the sweep.
CleanupStaleTransactions(max_age, order) ==
    /\ \A p \in Paths : has_active_transaction(p) => CanAcquire(p)
    /\ LET r == cleanup_stale_transactions(World, active_transactions, max_age, order)
       IN  /\ SetWorld(r.w)
           /\ active_transactions' = r.txs
    /\ UNCHANGED <<now, txns_generated, max_connections, ctxvars, running>>

\* ---------------------------------------------------------------- executor
\* is_read_only_query / is_schema_query: a test on the leading keyword.
is_read_only_query(stmt) == stmt.verb \in {"select", "pragma", "explain"}

\* is_schema_query that classifies every statement as DDL.
is_schema_query_any(stmt) == TRUE

is_schema_query(stmt) == stmt.verb \in {"create", "drop", "alter"}

\* execute_query(database_path, query): prepares and runs one statement on the
\* pooled handle.
execute_query(w, path, stmt) ==
    LET o == open_database(w, path, TRUE)
        x == EngRun(o.w.e[path], stmt)
    IN  IF ~o.ok THEN [ok |-> FALSE, err |-> o.err, db |-> <<>>, cmds |-> <<>>, w |-> o.w]
        ELSE IF ~x.ok
        THEN [ok |-> FALSE, err |-> "engine", db |-> o.db,
              cmds |-> <<<<"RUN", 1>>>>, w |-> o.w]
        ELSE [ok |-> TRUE, err |-> "", db |-> o.db, cmds |-> <<<<"RUN", 1>>>>,
              w |-> [o.w EXCEPT !.e[path] = x.e]]

\* execute_select_query(database_path, query): prepares the statement on the
\* pooled handle and reads its rows; the database is left as it is.
execute_select_query(w, path, stmt) == open_database(w, path, TRUE)

\* Tool execute_read_query: rejects every statement that is not read-only,
\* then execute_select_query.
ExecuteReadQuery(path, stmt) ==
    /\ CanAcquire(path)
    /\ IF ~is_read_only_query(stmt)
       THEN UNCHANGED <<connections, engine, file_exists, handles_opened>>
       ELSE SetWorld(execute_select_query(World, path, stmt).w)
    /\ UNCHANGED <<active_transactions, now, txns_generated, max_connections, ctxvars, running>>

\* Tool execute_write_query: rejects read-only and schema statements, then
\* execute_query.
ExecuteWriteQuery(path, stmt) ==
    /\ CanAcquire(path)
    /\ IF is_read_only_query(stmt) \/ is_schema_query(stmt)
       THEN UNCHANGED <<connections, engine, file_exists, handles_opened>>
       ELSE SetWorld(execute_query(World, path, stmt).w)
    /\ UNCHANGED <<active_transactions, now, txns_generated, max_connections, ctxvars, running>>

\* The statement loop of execute_schema_statements from statement i on: stops
\* at the first statement the engine rejects.  failed_at is its 1-based index,
\* 0 when every statement ran.  executed: statements_executed, one more after
\* each run that returned.  position: the number the error message names,
\* the loop index (which starts at 0) plus one.
RECURSIVE RunStatements(_, _, _)
RunStatements(e, statements, i) ==
    IF i > Len(statements)
    THEN [e |-> e, failed_at |-> 0, cmds |-> <<>>, executed |-> 0, position |-> 0]
    ELSE LET x == EngRun(e, statements[i])
         IN  IF ~x.ok THEN [e |-> e, failed_at |-> i, cmds |-> <<<<"RUN", i>>>>,
                            executed |-> 0, position |-> (i - 1) + 1]
             ELSE LET rest == RunStatements(x.e, statements, i + 1)
                  IN  [rest EXCEPT !.cmds = <<<<"RUN", i>>>> \o @,
                                   !.executed = @ + 1]

\* The catch block without its ROLLBACK.
RollbackOnError_skipped(e, wrap) == e

\* The catch block of execute_schema_statements: ROLLBACK when the call opened
\* its own transaction, an error of the ROLLBACK itself only logged.
RollbackOnError(e, wrap) ==
    IF wrap THEN EngRollback(e).e ELSE e

\* use_transaction with the test of has_active_transaction dropped.
use_transaction_always(txs, path) == TRUE

\* const use_transaction = !has_active_transaction(database_path)
use_transaction(txs, path) == txs[path] = NoTxn

\* execute_schema_statements(database_path, sql), sql already split into
\* statements.
execute_schema_statements(w, txs, path, statements) ==
    LET o == open_database(w, path, TRUE)
        wrap == use_transaction(txs, path) /\ Len(statements) > 1
        e0 == o.w.e[path]
        b == IF wrap THEN EngBegin(e0) ELSE Ok(e0)
        run == RunStatements(b.e, statements, 1)
        c == IF wrap THEN EngCommit(run.e) ELSE Ok(run.e)
        pre == IF wrap THEN <<<<"BEGIN", 0>>>> ELSE <<>>
        undo == IF wrap THEN <<<<"ROLLBACK", 0>>>> ELSE <<>>
        Failed(err, db, cmds, e, n) ==
            [ok |-> FALSE, err |-> err, db |-> db, cmds |-> cmds, executed |-> n,
             failed_at |-> 0, position |-> 0,
             w |-> [o.w EXCEPT !.e[path] = e]]
    IN  IF ~o.ok THEN [ok |-> FALSE, err |-> o.err, db |-> <<>>, cmds |-> <<>>,
                       executed |-> 0, failed_at |-> 0, position |-> 0,
                       w |-> o.w]
        ELSE IF Len(statements) = 0
        THEN Failed("validation", o.db, <<>>, e0, 0)
        ELSE IF \E i \in 1..Len(statements) : ~is_schema_query(statements[i])
        THEN Failed("validation", o.db, <<>>, e0, 0)
        ELSE IF ~b.ok
        THEN Failed("engine", o.db, pre \o undo, RollbackOnError(b.e, wrap), 0)
        ELSE IF run.failed_at # 0
        THEN [Failed("engine", o.db, pre \o run.cmds \o undo,
                     RollbackOnError(run.e, wrap), run.executed)
                  EXCEPT !.failed_at = run.failed_at, !.position = run.position]
        ELSE IF ~c.ok
        THEN Failed("engine", o.db, pre \o run.cmds \o <<<<"COMMIT", 0>>>> \o undo,
                    RollbackOnError(c.e, wrap), Len(statements))
        ELSE [ok |-> TRUE, err |-> "", db |-> o.db,
              cmds |-> pre \o run.cmds \o (IF wrap THEN <<<<"COMMIT", 0>>>> ELSE <<>>),
              executed |-> Len(statements), failed_at |-> 0, position |-> 0,
              w |-> [o.w EXCEPT !.e[path] = c.e]]

\* parse_sql_statements that stops after the first statement.
parse_sql_statements_first_only(sql) ==
    LET cleaned == [i \in 1..Len(sql) |-> sql[i].body]
        NonEmpty(stmt) == stmt # Blank
        all == SelectSeq(cleaned, NonEmpty)
    IN  IF all = <<>> THEN <<>> ELSE <<all[1]>>

\* parse_sql_statements(sql): every chunk with its comments removed and
\* trimmed, the empty results dropped.
parse_sql_statements(sql) ==
    LET cleaned == [i \in 1..Len(sql) |-> sql[i].body]
        NonEmpty(stmt) == stmt # Blank
    IN  SelectSeq(cleaned, NonEmpty)

\* execute_schema_statements(database_path, sql) from the text on: what the
\* call returns (statements_executed as executed, statements) or the error.
execute_schema_sql(w, txs, path, sql) ==
    LET statements == parse_sql_statements(sql)
        r == execute_schema_statements(w, txs, path, statements)
    IN  [ok |-> r.ok, err |-> r.err, executed |-> r.executed,
         statements |-> IF r.ok THEN statements ELSE <<>>, w |-> r.w]

\* Tool execute_schema_query with a query text.
ExecuteSchemaQuery(path, sql) ==
    /\ CanAcquire(path)
    /\ SetWorld(execute_schema_sql(World, active_transactions, path, sql).w)
    /\ UNCHANGED <<active_transactions, now, txns_generated, max_connections, ctxvars, running>>

ExecuteSchemaStatements(path, statements) ==
    /\ CanAcquire(path)
    /\ SetWorld(execute_schema_statements(World, active_transactions, path,
                                          statements).w)
    /\ UNCHANGED <<active_transactions, now, txns_generated, max_connections, ctxvars, running>>

\* The columns a record has, as a number: the insert takes its column list
\* from the first record, and a later record with fewer columns misses one.
ColumnCount(rec) == CASE rec.cols = "full" -> 2 [] rec.cols = "partial" -> 1
                      [] OTHER -> 0

\* The record loop of bulk_insert from record i on: stops at the first record
\* that misses a column of the first record or that the engine rejects.
\* failed_at is its 1-based index, 0 when every record was inserted.
\* inserted: the stmt.run calls so far that changed a row, which every INSERT
\* that returns does.  position: the record number the error message names,
\* inserted + 1 for a missing column; the error of stmt.run is rethrown as
\* the engine raised it and names no record (0).
RECURSIVE InsertRecords(_, _, _, _)
InsertRecords(e, data, i, inserted) ==
    IF i > Len(data) THEN [e |-> e, failed_at |-> 0, err |-> "", position |-> 0]
    ELSE IF ColumnCount(data[i]) < ColumnCount(data[1])
    THEN [e |-> e, failed_at |-> i, err |-> "missing_column",
          position |-> inserted + 1]
    ELSE LET x == EngRun(e, [verb |-> "insert", obj |-> data[i].obj,
                             valid |-> data[i].valid])
         IN  IF ~x.ok THEN [e |-> e, failed_at |-> i, err |-> "engine",
                            position |-> 0]
             ELSE InsertRecords(x.e, data, i + 1, inserted + 1)

\* The inner catch block of bulk_insert without its ROLLBACK.
BulkRollbackOnError_skipped(e, wrap) == e

\* The inner catch block of bulk_insert: ROLLBACK when the call opened its own
\* transaction, an error of the ROLLBACK itself only logged.
BulkRollbackOnError(e, wrap) ==
    IF wrap THEN EngRollback(e).e ELSE e

\* The batch loop counting whole batches only.
BatchCount_whole(n, batch_size) == n \div batch_size

\* The batch loop of bulk_insert for n records, from offset i on:
\* for (i = 0; i < n; i += batch_size) batch_count++.
RECURSIVE BatchLoop(_, _, _)
BatchLoop(i, n, batch_size) ==
    IF i < n THEN 1 + BatchLoop(i + batch_size, n, batch_size) ELSE 0

\* batch_count when the loop has run over all n records.
BatchCount(n, batch_size) == BatchLoop(0, n, batch_size)

\* bulk_insert(database_path, table, data, batch_size).  The statement is
\* prepared before the transaction starts, and fails when the table does not
\* exist; batch_size only groups the records for the log.
bulk_insert(w, txs, path, table, data, batch_size) ==
    LET o == open_database(w, path, TRUE)
        wrap == use_transaction(txs, path)
        e0 == o.w.e[path]
        b == IF wrap THEN EngBegin(e0) ELSE Ok(e0)
        run == InsertRecords(b.e, data, 1, 0)
        c == IF wrap THEN EngCommit(run.e) ELSE Ok(run.e)
        pre == IF wrap THEN <<<<"BEGIN", 0>>>> ELSE <<>>
        undo == IF wrap THEN <<<<"ROLLBACK", 0>>>> ELSE <<>>
        Failed(err, db, cmds, e) ==
            [ok |-> FALSE, err |-> err, db |-> db, cmds |-> cmds, inserted |-> 0,
             batches |-> 0, failed_at |-> 0, position |-> 0,
             w |-> [o.w EXCEPT !.e[path] = e]]
    IN  IF Len(data) = 0
        THEN [ok |-> FALSE, err |-> "validation", db |-> <<>>, cmds |-> <<>>,
              inserted |-> 0, batches |-> 0, failed_at |-> 0, position |-> 0,
              w |-> w]
        ELSE IF ~o.ok
        THEN [ok |-> FALSE, err |-> o.err, db |-> <<>>, cmds |-> <<>>,
              inserted |-> 0, batches |-> 0, failed_at |-> 0, position |-> 0,
              w |-> o.w]
        ELSE IF ColumnCount(data[1]) = 0
        THEN Failed("validation", o.db, <<>>, e0)
        ELSE IF table \notin e0.content
        THEN Failed("engine", o.db, <<>>, e0)
        ELSE IF ~b.ok
        THEN Failed("engine", o.db, pre, b.e)
        ELSE IF run.failed_at # 0
        THEN [Failed(run.err, o.db, pre \o undo, BulkRollbackOnError(run.e, wrap))
                  EXCEPT !.failed_at = run.failed_at, !.position = run.position]
        ELSE IF ~c.ok
        THEN Failed("engine", o.db, pre \o <<<<"COMMIT", 0>>>> \o undo,
                    BulkRollbackOnError(c.e, wrap))
        ELSE [ok |-> TRUE, err |-> "", db |-> o.db,
              cmds |-> pre \o (IF wrap THEN <<<<"COMMIT", 0>>>> ELSE <<>>),
              inserted |-> Len(data),
              batches |-> BatchCount(Len(data), batch_size),
              failed_at |-> 0, position |-> 0,
              w |-> [o.w EXCEPT !.e[path] = c.e]]

\* Tool bulk_insert.
BulkInsert(path, table, data, batch_size) ==
    /\ CanAcquire(path)
    /\ SetWorld(bulk_insert(World, active_transactions, path, table, data,
                            batch_size).w)
    /\ UNCHANGED <<active_transactions, now, txns_generated, max_connections, ctxvars, running>>

\* The statements import_schema takes from a schema text: format "sql" keeps
\* the statements that start with CREATE, format "json" keeps every object's
\* sql.
ImportStatements(statements, format) ==
    IF format = "json" THEN statements
    ELSE SelectSeq(statements, LAMBDA stmt : stmt.verb = "create")

\* The statement loop of import_schema from statement i on: each statement goes
\* through execute_query; a statement that fails is recorded and the loop goes
\* on.
RECURSIVE ImportLoop(_, _, _, _)
ImportLoop(w, path, statements, i) ==
    IF i > Len(statements) THEN [w |-> w, executed |-> 0, errors |-> 0]
    ELSE LET x == execute_query(w, path, statements[i])
             rest == ImportLoop(x.w, path, statements, i + 1)
         IN  IF x.ok THEN [rest EXCEPT !.executed = @ + 1]
             ELSE [rest EXCEPT !.errors = @ + 1]

\* import_schema(database_path, schema, format): an error when no statement is
\* left to run or when every statement failed; otherwise the counts of the
\* statements that ran, the failures only logged.
import_schema(w, path, schema, format) ==
    LET statements == ImportStatements(schema, format)
        run == ImportLoop(w, path, statements, 1)
    IN  IF Len(statements) = 0
        THEN [ok |-> FALSE, err |-> "validation", statements_executed |-> 0,
              errors |-> 0, w |-> w]
        ELSE IF run.errors > 0 /\ run.executed = 0
        THEN [ok |-> FALSE, err |-> "failed_completely", statements_executed |-> 0,
              errors |-> run.errors, w |-> run.w]
        ELSE [ok |-> TRUE, err |-> "", statements_executed |-> run.executed,
              errors |-> run.errors, w |-> run.w]

\* Tool import_schema.
ImportSchema(path, schema, format) ==
    /\ CanAcquire(path)
    /\ SetWorld(import_schema(World, path, schema, format).w)
    /\ UNCHANGED <<active_transactions, now, txns_generated, max_connections, ctxvars, running>>

\* -------------------------------------------------------------- admin tools
\* The raw path a caller writes for the database file p of the default
\* directory: the file's name, relative.
RawName(p) == [abs |-> FALSE, segs |-> <<p>>]

\* get_database_info(database_path): acquires the handle with open_database's
\* default create (true), reads the file size and pragmas, and counts the
\* tables through list_tables, which acquires the handle once more.
get_database_info(w, path) ==
    LET o == open_database(w, path, TRUE)
    IN  IF ~o.ok THEN [ok |-> FALSE, err |-> o.err, w |-> o.w]
        ELSE [ok |-> TRUE, err |-> "", w |-> open_database(o.w, path, TRUE).w]

\* Tool open_database({path, create}): sets the database context, then returns
\* get_database_info(path).  create is logged and not passed on.
OpenDatabaseTool(p, create) ==
    /\ IF connections[p] = NoConn THEN handles_opened[p] < MaxOpens
       ELSE connections[p].use_count + 1 < MaxUse
    /\ LET v == validate_database_path(RawName(p))
       IN  /\ v.ok
           /\ current_database' = [set |-> TRUE, path |-> v.path]
    /\ SetWorld(get_database_info(World, p).w)
    /\ UNCHANGED <<active_transactions, now, txns_generated, max_connections,
                   SQLITE_ALLOW_ABSOLUTE_PATHS,
                   running>>

\* -------------------------------------------------------------- maintenance
\* health_check_connections without the catch block: nothing is removed.
health_check_connections_keeps(w, broken) == w

\* health_check_connections: probes every handle; a handle whose probe raises
\* is closed and removed.  broken: the paths whose probe raises.
health_check_connections(w, broken) ==
    LET bad == PoolPaths(w.c) \cap broken
    IN  [w EXCEPT !.c = [p \in Paths |-> IF p \in bad THEN NoConn ELSE w.c[p]],
                  !.e = [p \in Paths |-> IF p \in bad THEN EngClose(w.e[p])
                                         ELSE w.e[p]]]

\* The loop of health_check_connections over the entries still to visit, with
\* the counters and the collected errors (one per path, named by the path).
RECURSIVE HealthLoop(_, _, _)
HealthLoop(todo, broken, acc) ==
    IF todo = {} THEN acc
    ELSE LET path == CHOOSE p \in todo : TRUE
         IN  HealthLoop(todo \ {path}, broken,
                        IF path \in broken
                        THEN [acc EXCEPT !.unhealthy = @ + 1,
                                         !.errors = Append(@, path)]
                        ELSE [acc EXCEPT !.healthy = @ + 1])

\* What health_check_connections returns: { healthy, unhealthy, errors }.
health_check_report(w, broken) ==
    HealthLoop(PoolPaths(w.c), broken,
               [healthy |-> 0, unhealthy |-> 0, errors |-> <<>>])

\* The setInterval callback of start_connection_maintenance.
Maintenance(broken) ==
    /\ SetWorld(health_check_connections(cleanup_idle_connections(World), broken))
    /\ UNCHANGED <<active_transactions, now, txns_generated, max_connections, ctxvars, running>>

\* Time passes.
Tick ==
    /\ now < MaxTicks * TickMinutes
    /\ now' = now + TickMinutes
    /\ UNCHANGED <<connections, active_transactions, engine, file_exists,
                   handles_opened, txns_generated, max_connections, ctxvars, running>>

\* ------------------------------------------------------------- event loop
\* A request handler taken statement by statement.  Every tool handler is an
\* async function without an await, and the functions it calls are
\* synchronous: once entered, it runs to its return on one turn of the event
\* loop, and a timer callback runs only on a turn of its own.

\* The timer callback running whatever the call stack holds.
TimerMayFire_anytime(r) == TRUE

\* The event loop starts a timer callback only with an empty call stack.
TimerMayFire(r) == r = Idle

\* The requests followed step by step, with their inputs.
Requests ==
    [op : {"begin", "commit", "rollback"}, path : {"a.db"}, input : {<<>>}]
        \cup [op : {"schema"}, path : {"a.db"},
              input : {<<CreateTable("t1")>>, <<CreateTable("t1"), CreateTable("t2")>>}]
        \cup [op : {"bulk"}, path : {"a.db"}, input : {<<Record("r1"), Record("r2")>>}]

\* The first statement of a request on a path: const db = open_database(path).
\* commit and rollback reach it only when the path has a TransactionState.
RequestEnter(req) ==
    /\ running = Idle
    /\ connections[req.path] # NoConn => connections[req.path].use_count < MaxUse
    /\ connections[req.path] = NoConn => handles_opened[req.path] < MaxOpens
    /\ req.op \in {"commit", "rollback"} => has_active_transaction(req.path)
    /\ req.op = "begin" =>
           IF has_active_transaction(req.path)
           THEN /\ active_transactions[req.path].savepoint_count < MaxDepth
                /\ Len(engine[req.path].sps) <= MaxDepth
           ELSE txns_generated < MaxTxns
    /\ LET o == open_database(World, req.path, TRUE)
       IN  /\ o.ok
           /\ SetWorld(o.w)
           /\ running' = [op |-> req.op, path |-> req.path, input |-> req.input,
                          db |-> o.db]
    /\ UNCHANGED <<active_transactions, now, txns_generated, max_connections, ctxvars>>

\* The handle the running request holds is the open handle of the pool.
HandleOpen(r) ==
    /\ connections[r.path] # NoConn
    /\ connections[r.path].database = r.db

\* What the rest of the request does with the handle it holds: the function of
\* the request from its engine calls on.  The functions of the model acquire
\* the handle themselves, so the acquisition counted at entry is taken off.
RequestResult(r) ==
    LET p == r.path
        x == CASE r.op = "begin" -> begin_transaction(World, active_transactions, p)
               [] r.op = "commit" -> commit_transaction(World, active_transactions, p)
               [] r.op = "rollback" -> rollback_transaction(World, active_transactions, p)
               [] r.op = "schema" ->
                      [w |-> execute_schema_statements(World, active_transactions, p,
                                                       r.input).w,
                       txs |-> active_transactions]
               [] r.op = "bulk" ->
                      [w |-> bulk_insert(World, active_transactions, p, "t1",
                                         r.input, 1).w,
                       txs |-> active_transactions]
    IN  [w |-> [x.w EXCEPT !.c[p].use_count = @ - 1], txs |-> x.txs]

\* The remaining statements of the running request, to its return.  On a
\* handle that was closed since the request acquired it the first engine call
\* raises, and the request fails with everything as it is.
RequestRun ==
    /\ running # Idle
    /\ IF HandleOpen(running)
       THEN LET x == RequestResult(running)
            IN  /\ SetWorld(x.w)
                /\ active_transactions' = x.txs
                /\ txns_generated' =
                       IF running.op = "begin" /\ ~has_active_transaction(running.path)
                       THEN txns_generated + 1 ELSE txns_generated
       ELSE UNCHANGED <<connections, engine, file_exists, handles_opened,
                        active_transactions, txns_generated>>
    /\ running' = Idle
    /\ UNCHANGED <<now, max_connections, ctxvars>>

\* The setInterval callback, started by the event loop.
TimerCallback(broken) ==
    /\ TimerMayFire(running)
    /\ SetWorld(health_check_connections(cleanup_idle_connections(World), broken))
    /\ UNCHANGED <<active_transactions, now, txns_generated, max_connections,
                   ctxvars, running>>

\* ------------------------------------------------------------ specification
Init ==
    /\ connections = [p \in Paths |-> NoConn]
    /\ active_transactions = [p \in Paths |-> NoTxn]
    /\ engine = [p \in Paths |-> FreshEngine]
    /\ file_exists = [p \in Paths |-> FALSE]
    /\ now = 0
    /\ handles_opened = [p \in Paths |-> 0]
    /\ txns_generated = 0
    /\ max_connections \in 1..Cardinality(Paths)
    /\ SQLITE_ALLOW_ABSOLUTE_PATHS = TRUE
    /\ current_database = NoDatabase
    /\ running = Idle

\* One step of the server over the database paths PS: a tool call on one of
\* them, the maintenance timer, or time passing.  TS: the paths callers run
\* transactions and statements on.
NextOn(PS, TS) ==
    \/ \E p \in PS, create \in BOOLEAN : OpenDatabase(p, create)
    \/ \E p \in PS : CloseDatabase(p)
    \/ \E p \in TS : BeginTransaction(p)
    \/ \E p \in TS : CommitTransaction(p)
    \/ \E p \in TS : RollbackTransaction(p)
    \/ \E p \in TS, stmt \in Stmts : ExecuteWriteQuery(p, stmt)
    \/ \E p \in TS, statements \in Batches : ExecuteSchemaStatements(p, statements)
    \/ \E broken \in SUBSET PS : Maintenance(broken)
    \/ Tick

\* One database: every operation on "a.db".
Next == NextOn({"a.db"}, {"a.db"})
InitOne ==
    /\ Init
    /\ max_connections = 1
Spec == InitOne /\ [][Next]_vars

\* Two databases competing for the pool, under every configured capacity:
\* top-level transactions on "a.db", "b.db" only opened and closed.
NextPool ==
    \/ \E p \in Paths, create \in BOOLEAN : OpenDatabase(p, create)
    \/ \E p \in Paths : CloseDatabase(p)
    \/ (~has_active_transaction("a.db") /\ BeginTransaction("a.db"))
    \/ CommitTransaction("a.db")
    \/ RollbackTransaction("a.db")
    \/ \E broken \in SUBSET Paths : Maintenance(broken)
    \/ Tick
SpecPool == Init /\ [][NextPool]_vars

\* Transactions on both databases, nested to any depth, with the pool entries
\* closed by the caller, by idle eviction and by the health check.
NextTxn ==
    \/ \E p \in Paths : CloseDatabase(p)
    \/ \E p \in Paths : BeginTransaction(p)
    \/ \E p \in Paths : CommitTransaction(p)
    \/ \E p \in Paths : RollbackTransaction(p)
    \/ \E broken \in SUBSET Paths : Maintenance(broken)
SpecTxn == Init /\ [][NextTxn]_vars

\* One database in which table t1 gets created and t2 never is, transactions
\* nested to any depth and bulk inserts into either table inside and outside
\* them; the caller can close the handle at any point.
NextBulk ==
    \/ CloseDatabase("a.db")
    \/ BeginTransaction("a.db")
    \/ CommitTransaction("a.db")
    \/ RollbackTransaction("a.db")
    \/ ExecuteSchemaStatements("a.db", <<CreateTable("t1")>>)
    \/ \E t \in Tables, data \in DataSets, batch_size \in BatchSizes :
           BulkInsert("a.db", t, data, batch_size)
SpecBulk == InitOne /\ [][NextBulk]_vars

\* Transactions on one database, nested to any depth, growing old, with the
\* stale-transaction sweep applied at any point.
NextStale ==
    \/ CloseDatabase("a.db")
    \/ BeginTransaction("a.db")
    \/ CommitTransaction("a.db")
    \/ RollbackTransaction("a.db")
    \/ \E order \in PathOrders : CleanupStaleTransactions(max_age_minutes, order)
    \/ Tick
SpecStale == InitOne /\ [][NextStale]_vars

\* Two databases whose transactions and pool entries grow old: callers begin
\* transactions and close handles, and the three sweeps run at any point.
NextSweep ==
    \/ \E p \in Paths : ~has_active_transaction(p) /\ BeginTransaction(p)
    \/ CloseDatabase("a.db")
    \/ \E order \in PathOrders : CleanupStaleTransactions(max_age_minutes, order)
    \/ Maintenance({})
    \/ Tick
SpecSweep == Init /\ [][NextSweep]_vars

\* The running server on one database: callers begin, nest, end and abandon
\* transactions and close the handle; the clock advances and the maintenance
\* timer keeps firing, whatever the callers do.
NextServer ==
    \/ CloseDatabase("a.db")
    \/ BeginTransaction("a.db")
    \/ CommitTransaction("a.db")
    \/ RollbackTransaction("a.db")
    \/ \E broken \in SUBSET {"a.db"} : Maintenance(broken)
    \/ Tick
SpecServer ==
    /\ InitOne /\ [][NextServer]_vars
    /\ WF_vars(Tick)
    /\ WF_vars(Maintenance({}))

\* Path validation under either setting of SQLITE_ALLOW_ABSOLUTE_PATHS: callers
\* name databases by raw paths, which become the database context.
InitPath ==
    /\ connections = [p \in Paths |-> NoConn]
    /\ active_transactions = [p \in Paths |-> NoTxn]
    /\ engine = [p \in Paths |-> FreshEngine]
    /\ file_exists = [p \in Paths |-> FALSE]
    /\ now = 0
    /\ handles_opened = [p \in Paths |-> 0]
    /\ txns_generated = 0
    /\ max_connections = 1
    /\ SQLITE_ALLOW_ABSOLUTE_PATHS \in BOOLEAN
    /\ current_database = NoDatabase
    /\ running = Idle
NextPath ==
    \/ \E raw \in RawPaths : SetCurrentDatabase(raw)
    \/ \E database \in Arguments, default_database \in DefaultDatabases :
           SetupDatabaseContext(database, default_database)
    \/ ClearCurrentDatabase
SpecPath == InitPath /\ [][NextPath]_vars

\* One database filled by schema imports, inside and outside transactions.
NextImport ==
    \/ CloseDatabase("a.db")
    \/ BeginTransaction("a.db")
    \/ CommitTransaction("a.db")
    \/ RollbackTransaction("a.db")
    \/ \E schema \in Batches, format \in {"sql", "json"} :
           ImportSchema("a.db", schema, format)
SpecImport == InitOne /\ [][NextImport]_vars

\* The open_database and close_database tools on two databases, with the
\* maintenance timer and time passing.
NextAdmin ==
    \/ \E p \in Paths, create \in BOOLEAN : OpenDatabaseTool(p, create)
    \/ \E p \in Paths : CloseDatabase(p)
    \/ \E broken \in SUBSET Paths : Maintenance(broken)
    \/ Tick
SpecAdmin == Init /\ [][NextAdmin]_vars

\* One database reached through the three query tools and the three
\* transaction tools, the query texts including transaction-control statements.
NextControl ==
    \/ CloseDatabase("a.db")
    \/ BeginTransaction("a.db")
    \/ CommitTransaction("a.db")
    \/ RollbackTransaction("a.db")
    \/ \E stmt \in ControlStmts \cup {SelectOne} : ExecuteReadQuery("a.db", stmt)
    \/ \E stmt \in ControlStmts \cup DML :
           /\ stmt.verb = "savepoint" => Len(engine["a.db"].sps) <= MaxDepth
           /\ ExecuteWriteQuery("a.db", stmt)
    \/ \E stmt \in ControlStmts \cup {CreateTable("t1")} :
           ExecuteSchemaStatements("a.db", <<stmt>>)
SpecControl == InitOne /\ [][NextControl]_vars

\* One database built up by schema texts, inside and outside caller
\* transactions; the caller can close the handle at any point.
NextSchema ==
    \/ CloseDatabase("a.db")
    \/ BeginTransaction("a.db")
    \/ CommitTransaction("a.db")
    \/ RollbackTransaction("a.db")
    \/ \E sql \in SqlTexts : ExecuteSchemaQuery("a.db", sql)
SpecSchema == InitOne /\ [][NextSchema]_vars

\* One database with table t1, filled by bulk inserts of uniform records in
\* batches of every size, inside and outside caller transactions.
NextCount ==
    \/ CloseDatabase("a.db")
    \/ BeginTransaction("a.db")
    \/ CommitTransaction("a.db")
    \/ RollbackTransaction("a.db")
    \/ ExecuteSchemaStatements("a.db", <<CreateTable("t1")>>)
    \/ \E t \in Tables, data \in UniformData, batch_size \in BatchSizes :
           BulkInsert("a.db", t, data, batch_size)
SpecCount == InitOne /\ [][NextCount]_vars

\* One database with transactions nested to any depth and statements run at
\* every level; the caller can close the handle at any point.
NextNest ==
    \/ CloseDatabase("a.db")
    \/ BeginTransaction("a.db")
    \/ CommitTransaction("a.db")
    \/ RollbackTransaction("a.db")
    \/ \E stmt \in DML : ExecuteWriteQuery("a.db", stmt)
    \/ \E t \in Tables : ExecuteSchemaStatements("a.db", <<CreateTable(t)>>)
SpecNest == InitOne /\ [][NextNest]_vars

\* Requests on one database taken statement by statement, with the maintenance
\* timer and the clock.
NextLoop ==
    \/ \E req \in Requests : RequestEnter(req)
    \/ RequestRun
    \/ \E broken \in SUBSET {"a.db"} : TimerCallback(broken)
    \/ Tick
SpecLoop == InitOne /\ [][NextLoop]_vars

\* ------------------------------------------------------------------ claims
Issued(cmds, verb) == \E i \in 1..Len(cmds) : cmds[i][1] = verb

\* C1: wherever the server can be, a begin on a path without a TransactionState
\* that reaches the engine issues exactly BEGIN IMMEDIATE and creates the
\* path's one state; a begin on a path with a TransactionState issues exactly
\* SAVEPOINT sp_<count>, never a second top-level start, and keeps the state's
\* identity; no begin touches another path's state.
C1_OneTopLevelTransaction ==
    \A p \in Paths :
        LET r == begin_transaction(World, active_transactions, p)
            n == active_transactions[p].savepoint_count
        IN  /\ \A q \in Paths \ {p} : r.txs[q] = active_transactions[q]
            /\ IF has_active_transaction(p)
               THEN /\ ~Issued(r.cmds, "BEGIN IMMEDIATE")
                    /\ r.db # <<>> => r.cmds = <<<<"SAVEPOINT", n>>>>
                    /\ r.txs[p] # NoTxn
                    /\ r.txs[p].id = active_transactions[p].id
                    /\ r.txs[p].start_time = active_transactions[p].start_time
               ELSE /\ ~Issued(r.cmds, "SAVEPOINT")
                    /\ r.db # <<>> => r.cmds = <<<<"BEGIN IMMEDIATE", 0>>>>
                    /\ r.ok => r.txs[p] # NoTxn /\ r.txs[p].database_path = p

\* A nested begin has acted: the path's transaction has a savepoint, on top of
\* the top-level transaction its first begin started.
C1_Witness ==
    /\ has_active_transaction("a.db")
    /\ active_transactions["a.db"].savepoint_count = 1
    /\ engine["a.db"].txn = "begin"
    /\ Len(engine["a.db"].sps) = 1

\* C2: a begin that returns raises savepoint_count by exactly one when the path
\* has a TransactionState and creates the state at 0 when it has none; a commit
\* or rollback that returns lowers the count by exactly one when it is above 0,
\* keeping the state, and removes the state when it is 0; the count is never
\* negative.
C2_DepthStepsByOne ==
    \A p \in Paths :
        LET t == active_transactions[p]
            b == begin_transaction(World, active_transactions, p)
            c == commit_transaction(World, active_transactions, p)
            r == rollback_transaction(World, active_transactions, p)
            Ends(x) ==
                x.ok => IF t.savepoint_count > 0
                        THEN /\ x.txs[p] # NoTxn
                             /\ x.txs[p].savepoint_count = t.savepoint_count - 1
                        ELSE x.txs[p] = NoTxn
        IN  IF has_active_transaction(p)
            THEN /\ t.savepoint_count >= 0
                 /\ b.ok => b.txs[p].savepoint_count = t.savepoint_count + 1
                 /\ Ends(c)
                 /\ Ends(r)
            ELSE b.ok => b.txs[p].savepoint_count = 0

\* Three begins and one rollback have acted: count 1 with two savepoints made.
C2_Witness ==
    /\ has_active_transaction("a.db")
    /\ active_transactions["a.db"].savepoint_count = 1
    /\ Len(engine["a.db"].sps) = 2

\* C3: on a path without a TransactionState, begin returns an id X; a nested
\* begin returns X and leaves the state at count 1; a rollback returns X and
\* leaves the state present at count 0; a second rollback returns X and removes
\* the state.  And wherever a path has a TransactionState, every begin, commit
\* and rollback that returns on it returns the state's id.
C3_NestedBeginSharesId ==
    \A p \in Paths :
        LET b1 == begin_transaction(World, active_transactions, p)
            b2 == begin_transaction(b1.w, b1.txs, p)
            r1 == rollback_transaction(b2.w, b2.txs, p)
            r2 == rollback_transaction(r1.w, r1.txs, p)
            c1 == commit_transaction(b2.w, b2.txs, p)
            c2 == commit_transaction(c1.w, c1.txs, p)
            b == begin_transaction(World, active_transactions, p)
            c == commit_transaction(World, active_transactions, p)
            r == rollback_transaction(World, active_transactions, p)
        IN  IF has_active_transaction(p)
            THEN /\ b.ok => b.id = active_transactions[p].id
                 /\ c.ok => c.id = active_transactions[p].id
                 /\ r.ok => r.id = active_transactions[p].id
            ELSE b1.ok =>
                 /\ b2.ok /\ b2.id = b1.id
                 /\ b2.txs[p] # NoTxn /\ b2.txs[p].savepoint_count = 1
                 /\ r1.ok /\ r1.id = b1.id
                 /\ r1.txs[p] # NoTxn /\ r1.txs[p].savepoint_count = 0
                 /\ r2.ok /\ r2.id = b1.id /\ r2.txs[p] = NoTxn
                 /\ c1.ok /\ c1.id = b1.id
                 /\ c1.txs[p] # NoTxn /\ c1.txs[p].savepoint_count = 0
                 /\ c2.ok /\ c2.id = b1.id /\ c2.txs[p] = NoTxn

\* Begin, nested begin and one rollback have acted: the state is present at
\* count 0 with the rolled-back savepoint behind it.
C3_Witness ==
    /\ has_active_transaction("a.db")
    /\ active_transactions["a.db"].savepoint_count = 0
    /\ active_transactions["a.db"].id = 1
    /\ Len(engine["a.db"].sps) = 1

\* A statement call a caller makes inside a transaction: one statement through
\* execute_query or a batch through execute_schema_statements.
TxCalls == [kind : {"query"}, stmt : Stmts, batch : {<<>>}]
              \cup [kind : {"schema"}, stmt : {MalformedCreate}, batch : Batches]

RunCall(w, txs, p, call) ==
    IF call.kind = "query"
    THEN LET x == execute_query(w, p, call.stmt)
         IN  [w |-> x.w, applied |-> IF x.ok THEN {call.stmt.obj} ELSE {}]
    ELSE LET x == execute_schema_statements(w, txs, p, call.batch)
         IN  [w |-> x.w, applied |-> {call.batch[i].obj : i \in 1..x.executed}]

\* C4: on a path without a TransactionState, after a begin that returns and any
\* statement call (one statement or a batch of several), a commit returns, leaves no TransactionState and leaves
\* on disk the effect of every statement that ran; a rollback instead returns,
\* leaves no TransactionState and leaves the disk and the connection's view
\* exactly as the disk was at the begin.
C4_RoundTrip ==
    \A p \in Paths :
        ~has_active_transaction(p) =>
        LET b == begin_transaction(World, active_transactions, p)
        IN  b.ok =>
            \A call \in TxCalls :
                LET x == RunCall(b.w, b.txs, p, call)
                    c == commit_transaction(x.w, b.txs, p)
                    r == rollback_transaction(x.w, b.txs, p)
                IN  /\ c.ok /\ c.txs[p] = NoTxn
                    /\ x.applied \subseteq c.w.e[p].disk
                    /\ c.w.e[p].disk = x.w.e[p].content
                    /\ c.w.e[p].txn = "none"
                    /\ r.ok /\ r.txs[p] = NoTxn
                    /\ r.w.e[p].disk = engine[p].disk
                    /\ r.w.e[p].content = engine[p].disk
                    /\ r.w.e[p].txn = "none"

\* A begin and a statement have acted: a top-level transaction holds an effect
\* that is not on disk yet.
C4_Witness ==
    /\ has_active_transaction("a.db")
    /\ active_transactions["a.db"].savepoint_count = 0
    /\ engine["a.db"].txn = "begin"
    /\ engine["a.db"].content # engine["a.db"].disk

\* C5: on a path without a TransactionState, commit and rollback fail with the
\* no-active-transaction error and change neither the transaction map, nor the
\* pool, nor any database; retried on what they left, they fail again.
C5_NoTransactionRejected ==
    \A p \in Paths :
        ~has_active_transaction(p) =>
        LET c == commit_transaction(World, active_transactions, p)
            r == rollback_transaction(World, active_transactions, p)
            c2 == commit_transaction(r.w, r.txs, p)
            r2 == rollback_transaction(c.w, c.txs, p)
        IN  /\ ~c.ok /\ c.err = "no_txn" /\ c.cmds = <<>>
            /\ c.w = World /\ c.txs = active_transactions
            /\ ~r.ok /\ r.err = "no_txn" /\ r.cmds = <<>>
            /\ r.w = World /\ r.txs = active_transactions
            /\ ~c2.ok /\ c2.w = World /\ c2.txs = active_transactions
            /\ ~r2.ok /\ r2.w = World /\ r2.txs = active_transactions

\* A transaction has been committed and the path has no TransactionState, a
\* pooled handle and data on disk: the state a stray commit or rollback meets.
C5_Witness ==
    /\ ~has_active_transaction("a.db")
    /\ txns_generated > 0
    /\ connections["a.db"] # NoConn
    /\ engine["a.db"].disk # {}

\* C6: a step of idle eviction, run by the timer or by an acquire of another
\* path at capacity, leaves in the pool, unchanged and open, every entry whose
\* path has a TransactionState.
C6_EvictionSkipsBusy ==
    [][\A p \in Paths :
         (/\ has_active_transaction(p)
          /\ connections[p] # NoConn
          /\ \/ Maintenance({})
             \/ \E q \in Paths \ {p}, create \in BOOLEAN : OpenDatabase(q, create))
         => /\ connections'[p] = connections[p]
            /\ engine'[p] = engine[p]]_vars

\* C7: the handle of a pool entry names its own path and one connection the
\* engine opened, so no two entries share a handle; and two acquires of a path
\* in a row, the first successful, return the same handle, the second opening
\* no engine connection and leaving every other entry alone.
C7_PoolDeduplicates ==
    /\ \A p \in PoolPaths(connections) :
           /\ connections[p].database[1] = p
           /\ connections[p].database[2] \in 1..handles_opened[p]
    /\ \A p \in Paths, create1, create2 \in BOOLEAN :
           LET r1 == open_database(World, p, create1)
               r2 == open_database(r1.w, p, create2)
           IN  r1.ok =>
               /\ r2.ok /\ r2.db = r1.db
               /\ r2.w.h = r1.w.h
               /\ r2.w.e = r1.w.e
               /\ r2.w.c[p].database = r1.db
               /\ r2.w.c[p].use_count = r1.w.c[p].use_count + 1
               /\ \A q \in Paths \ {p} : r2.w.c[q] = r1.w.c[q]

\* Two acquires of one path have acted on a single engine connection.
C7_Witness ==
    /\ connections["a.db"] # NoConn
    /\ connections["a.db"].use_count = 2
    /\ handles_opened["a.db"] = 1

\* C8: the pool never holds more entries than max_connections; and an acquire
\* of a path that is not in a full pool gets the capacity error, with the pool,
\* the engine connections and the files unchanged, exactly when idle eviction
\* frees no entry, and otherwise proceeds on the pool as eviction left it.
C8_PoolCapacity ==
    /\ Cardinality(PoolPaths(connections)) <= max_connections
    /\ \A p \in Paths \ PoolPaths(connections), create \in BOOLEAN :
           Cardinality(PoolPaths(connections)) >= max_connections =>
           LET r == open_database(World, p, create)
               evicted == cleanup_idle_connections(World)
           IN  IF IdleEntries(connections) = {}
               THEN ~r.ok /\ r.err = "capacity" /\ r.db = <<>> /\ r.w = World
               ELSE /\ r.err # "capacity"
                    /\ \A q \in Paths \ {p} : r.w.c[q] = evicted.c[q]
                    /\ Cardinality(PoolPaths(r.w.c)) <= max_connections

\* The pool is full of entries in use and another path is asked for.
C8_Witness ==
    /\ max_connections = 1
    /\ connections["a.db"] # NoConn
    /\ connections["b.db"] = NoConn
    /\ handles_opened["b.db"] > 0
    /\ IdleEntries(connections) = {}
    /\ now > 0

\* C9: with capacity 1, while the first path has a TransactionState and its
\* pool entry, an open of a second path fails with the capacity error and
\* leaves the pool as it was, however long the first entry has been idle.
C9_BusyPoolRejectsSecond ==
    [][(/\ max_connections = 1
        /\ has_active_transaction("a.db")
        /\ connections["a.db"] # NoConn
        /\ OpenDatabase("b.db", TRUE))
       => /\ open_database(World, "b.db", TRUE).err = "capacity"
          /\ connections' = connections]_vars

\* C10: on a path without a TransactionState, a schema batch of two or more
\* DDL statements either returns, with the effect of every statement on disk
\* and no transaction left open, or fails, with the disk and the connection's
\* view exactly as before the call and no transaction left open.
C10_SchemaBatchAtomic ==
    \A p \in Paths, b \in Batches :
        (/\ ~has_active_transaction(p)
         /\ Len(b) > 1
         /\ \A i \in 1..Len(b) : is_schema_query(b[i])) =>
        LET r == execute_schema_statements(World, active_transactions, p, b)
            before == engine[p]
            after == r.w.e[p]
        IN  /\ after.txn = "none" /\ after.sps = <<>>
            /\ after.content = after.disk
            /\ IF r.ok
               THEN /\ r.executed = Len(b)
                    /\ after.disk = before.content \cup {b[i].obj : i \in 1..Len(b)}
               ELSE /\ after.disk = before.disk
                    /\ after.content = before.content

\* With no TransactionState, one table is on disk and the other is not: a batch
\* creating both fails at the existing one after creating the missing one.
C10_Witness ==
    /\ ~has_active_transaction("a.db")
    /\ connections["a.db"] # NoConn
    /\ engine["a.db"].txn = "none"
    /\ engine["a.db"].disk = {"t1"}
    /\ ~execute_schema_statements(World, active_transactions, "a.db",
                                  <<CreateTable("t2"), CreateTable("t1")>>).ok

\* C11: a schema batch holding a statement that is not classified as DDL fails
\* at validation: nothing is sent to the engine (no BEGIN, no statement), no
\* statement counts as executed, and the engine connection, the disk and the
\* transaction of the path are exactly as the acquire of the handle left them,
\* so no table of the batch is created.
C11_NonDdlBatchRejected ==
    \A p \in Paths, b \in Batches :
        (\E i \in 1..Len(b) : b[i] \in DML) =>
        LET r == execute_schema_statements(World, active_transactions, p, b)
            o == open_database(World, p, TRUE)
        IN  /\ ~r.ok
            /\ r.cmds = <<>>
            /\ r.executed = 0
            /\ r.w = o.w
            /\ r.w.e[p] = engine[p]
            /\ o.ok => r.err = "validation"

\* A handle is pooled on a database without table t1, in autocommit mode, and
\* the batch "create t1; insert r1" is refused.
C11_Witness ==
    /\ connections["a.db"] # NoConn
    /\ engine["a.db"].txn = "none"
    /\ "t1" \notin engine["a.db"].content
    /\ "r1" \in engine["a.db"].content
    /\ LET r == execute_schema_statements(World, active_transactions, "a.db",
                                          <<CreateTable("t1"), InsertRow("r1")>>)
       IN  ~r.ok /\ r.err = "validation"

\* The transaction control statements a call sent to the engine on its own.
OwnTransactionControl(cmds) ==
    Issued(cmds, "BEGIN") \/ Issued(cmds, "COMMIT") \/ Issued(cmds, "ROLLBACK")

\* C12: on a path with a TransactionState, a schema batch and a bulk insert,
\* whether they return or fail, send no BEGIN, COMMIT or ROLLBACK of their own
\* and leave the engine's transaction as it was: same mode, same savepoints,
\* nothing new on disk while it is open.  Neither call has the transaction map
\* among its outputs, so the TransactionState keeps its id and depth.
C12_CallerTransactionKept ==
    \A p \in Paths :
        has_active_transaction(p) =>
        LET Kept(r) ==
                /\ ~OwnTransactionControl(r.cmds)
                /\ r.w.e[p].txn = engine[p].txn
                /\ r.w.e[p].sps = engine[p].sps
                /\ engine[p].txn # "none" => r.w.e[p].disk = engine[p].disk
        IN  /\ \A b \in Batches :
                   Kept(execute_schema_statements(World, active_transactions, p, b))
            /\ \A t \in Tables, data \in DataSets, batch_size \in BatchSizes :
                   Kept(bulk_insert(World, active_transactions, p, t, data,
                                    batch_size))

\* Inside an open caller transaction a bulk insert has put a row in the
\* connection's view that is not on disk, and a further bulk insert fails at
\* its second record.
C12_Witness ==
    /\ has_active_transaction("a.db")
    /\ engine["a.db"].txn = "begin"
    /\ "r1" \in engine["a.db"].content \ engine["a.db"].disk
    /\ ~bulk_insert(World, active_transactions, "a.db", "t1",
                    <<Record("r2"), RejectedRecord>>, 1).ok

\* C13: on a path without a TransactionState, a bulk insert either returns,
\* with every row of the call on disk, or fails, with the disk and the
\* connection's view exactly as before the call; no transaction is left open;
\* and the outcome is the same for every batch_size.
C13_BulkInsertAtomic ==
    \A p \in Paths, t \in Tables, data \in DataSets :
        ~has_active_transaction(p) =>
        LET r1 == bulk_insert(World, active_transactions, p, t, data, 1)
            before == engine[p]
            after == r1.w.e[p]
        IN  /\ after.txn = "none" /\ after.sps = <<>>
            /\ IF r1.ok
               THEN /\ after.disk = before.content
                                        \cup {data[i].obj : i \in 1..Len(data)}
                    /\ after.content = after.disk
               ELSE /\ after.disk = before.disk
                    /\ after.content = before.content
            /\ \A batch_size \in BatchSizes :
                   LET r == bulk_insert(World, active_transactions, p, t, data,
                                        batch_size)
                   IN  r.ok = r1.ok /\ r.w = r1.w

\* With no TransactionState the table exists, row r1 does not, and a bulk
\* insert in batches of one fails at its second record after inserting r1.
C13_Witness ==
    /\ ~has_active_transaction("a.db")
    /\ connections["a.db"] # NoConn
    /\ "t1" \in engine["a.db"].disk
    /\ "r1" \notin engine["a.db"].disk
    /\ LET r == bulk_insert(World, active_transactions, "a.db", "t1",
                            <<Record("r1"), RejectedRecord>>, 1)
       IN  ~r.ok /\ r.err = "engine"

\* C14: an import_schema call that reports success has applied every statement
\* it ran: none of them failed.
C14_ImportNeverPartial ==
    [][\A p \in Paths, schema \in Batches, format \in {"sql", "json"} :
         ImportSchema(p, schema, format) =>
         LET r == import_schema(World, p, schema, format)
         IN  r.ok => r.errors = 0]_vars

\* C15: a step of cleanup_stale_transactions(max_age) leaves no TransactionState
\* that started before the cutoff, and leaves the engine connection of every
\* path it swept without an open transaction.
C15_SweepRemovesStale ==
    [][\A order \in PathOrders :
         CleanupStaleTransactions(max_age_minutes, order) =>
         \A p \in Paths :
             (/\ has_active_transaction(p)
              /\ active_transactions[p].start_time < now - max_age_minutes)
             => /\ active_transactions'[p] = NoTxn
                /\ engine'[p].txn = "none"]_vars

\* A TransactionState of the path started more than max_age_minutes ago.
StaleTransaction(p) ==
    /\ has_active_transaction(p)
    /\ active_transactions[p].start_time < now - max_age_minutes

\* C16: once a transaction is older than the maximum age, the server removes
\* its TransactionState by itself: with the maintenance timer firing and no
\* caller request needed, a stale transaction leads to no transaction.
C16_StaleEventuallyRolledBack ==
    StaleTransaction("a.db") ~> ~has_active_transaction("a.db")

\* C17: with absolute paths disabled, the validator rejects every absolute raw
\* path with a security error, every path it returns lies inside the default
\* directory, and so does the database context.
C17_ValidatedPathInsideRoot ==
    ~SQLITE_ALLOW_ABSOLUTE_PATHS =>
    /\ \A raw \in RawPaths :
           LET v == validate_database_path(raw)
           IN  /\ raw.abs => ~v.ok /\ v.err = "security"
               /\ v.ok => Inside(SQLITE_DEFAULT_PATH, v.path)
    /\ current_database # NoDatabase
           => Inside(SQLITE_DEFAULT_PATH, current_database.path)

\* With absolute paths disabled a raw path has been accepted as the context:
\* the file /d/d/t.db, which a caller can write as "d/../d/t.db".
C17_Witness ==
    /\ ~SQLITE_ALLOW_ABSOLUTE_PATHS
    /\ current_database # NoDatabase
    /\ current_database.path = <<"d", "d", "t.db">>
    /\ validate_database_path([abs |-> FALSE, segs |-> <<"d", "..", "d">>]).ok
    /\ ~validate_database_path([abs |-> FALSE, segs |-> <<"..", "t.db">>]).ok

\* C18: under every configuration, a relative raw path that resolves to a file
\* outside the default directory is rejected with a security error, so setting
\* it as the database context leaves the context as it was.
C18_TraversalRejectedAlways ==
    [][\A raw \in RawPaths :
         (/\ ~raw.abs
          /\ ~Inside(SQLITE_DEFAULT_PATH, Resolve(SQLITE_DEFAULT_PATH, raw.segs))
          /\ SetCurrentDatabase(raw))
         => /\ validate_database_path(raw).err = "security"
            /\ current_database' = current_database]_vars

\* C19: two raw paths that name the same file are given the same resolved
\* path, the key under which the pool and the transaction map file them.
C19_OneKeyPerFile ==
    [][\A raw \in RawPaths :
         LET v == validate_database_path(raw)
         IN  (/\ current_database # NoDatabase
              /\ v.ok
              /\ Normalize(v.path) = Normalize(current_database.path)
              /\ SetCurrentDatabase(raw))
             => current_database' = current_database]_vars

\* C20: an acquire with create false of a path whose file does not exist fails
\* with a connection error, leaves every file as it was, opens no engine
\* connection and adds no entry to the pool.
C20_MissingFileNotCreated ==
    \A p \in Paths :
        ~file_exists[p] =>
        LET r == open_database(World, p, FALSE)
        IN  /\ ~r.ok /\ r.err \in {"missing", "capacity"} /\ r.db = <<>>
            /\ r.w.f = file_exists
            /\ r.w.h = handles_opened
            /\ r.w.c[p] = NoConn
            /\ PoolPaths(r.w.c) \subseteq PoolPaths(connections)
            /\ Cardinality(PoolPaths(connections)) < max_connections
                   => r.err = "missing" /\ r.w = World

\* The pool has room, one database is open and the file of the other does not
\* exist: the acquire with create false is refused for the missing file.
C20_Witness ==
    /\ max_connections = 2
    /\ connections["a.db"] # NoConn
    /\ ~file_exists["b.db"]
    /\ open_database(World, "b.db", FALSE).err = "missing"

\* C21: the open_database tool called with create false on a path whose file
\* does not exist creates no file and adds no pool entry for it.
C21_ToolHonoursCreate ==
    [][\A p \in Paths :
         (~file_exists[p] /\ OpenDatabaseTool(p, FALSE))
         => (~file_exists'[p] /\ connections'[p] = NoConn)]_vars

\* C22: after a health check the pool holds exactly the entries whose probe
\* returned, unchanged; the handles whose probe raised are closed and gone; and
\* the report counts every entry once, healthy or unhealthy, with one error
\* per unhealthy entry.
C22_HealthCheckRemovesBroken ==
    \A broken \in SUBSET Paths :
        LET pool == PoolPaths(connections)
            w == health_check_connections(World, broken)
            report == health_check_report(World, broken)
        IN  /\ PoolPaths(w.c) = pool \ broken
            /\ \A p \in pool \ broken : w.c[p] = connections[p] /\ w.e[p] = engine[p]
            /\ \A p \in pool \cap broken : w.e[p].txn = "none"
            /\ report.healthy + report.unhealthy = Cardinality(pool)
            /\ report.unhealthy = Cardinality(pool \cap broken)
            /\ Len(report.errors) = report.unhealthy
            /\ {report.errors[i] : i \in 1..Len(report.errors)} = pool \cap broken

\* Both databases are pooled, a.db inside a transaction, and a health check in
\* which a.db's probe raises removes a.db and keeps b.db.
C22_Witness ==
    /\ connections["a.db"] # NoConn /\ connections["b.db"] # NoConn
    /\ engine["a.db"].txn = "begin"
    /\ LET w == health_check_connections(World, {"a.db"})
       IN  w.c["a.db"] = NoConn /\ w.c["b.db"] = connections["b.db"]
    /\ health_check_report(World, {"a.db"}).healthy = 1

\* C23: a transaction-control statement given to execute_read_query,
\* execute_write_query or execute_schema_query is not executed: the call
\* leaves the engine's transaction and savepoints as they were.
C23_QueryToolsRunNoControl ==
    [][\A stmt \in ControlStmts :
         (\/ ExecuteReadQuery("a.db", stmt)
          \/ ExecuteWriteQuery("a.db", stmt)
          \/ ExecuteSchemaStatements("a.db", <<stmt>>))
         => /\ engine'["a.db"].txn = engine["a.db"].txn
            /\ engine'["a.db"].sps = engine["a.db"].sps]_vars

\* C24: a schema text whose execution succeeds reports as statements_executed
\* the number of chunks of the text that hold a statement, and returns the
\* statements of those chunks in the order of the text.
C24_StatementsCounted ==
    \A sql \in SqlTexts :
        LET r == execute_schema_sql(World, active_transactions, "a.db", sql)
            held == {i \in 1..Len(sql) : sql[i].body # Blank}
            Nth(k) == CHOOSE i \in held : Cardinality({j \in held : j < i}) = k - 1
        IN  r.ok =>
            /\ r.executed = Cardinality(held)
            /\ Len(r.statements) = Cardinality(held)
            /\ \A k \in 1..Len(r.statements) : r.statements[k] = sql[Nth(k)].body

\* Table t1 is on disk, and a text of a comment alone, CREATE TABLE t2 and a
\* commented CREATE INDEX succeeds, reporting two statements in that order.
C24_Witness ==
    /\ engine["a.db"].disk = {"t1"}
    /\ LET text == <<SqlChunk(Blank, TRUE), SqlChunk(CreateTable("t2"), FALSE),
                     SqlChunk(CreateIndex, TRUE)>>
           r == execute_schema_sql(World, active_transactions, "a.db", text)
       IN  /\ r.ok /\ r.executed = 2
           /\ r.statements = <<CreateTable("t2"), CreateIndex>>

\* C25: a bulk insert of n uniform records, all accepted, in batches of b into
\* a table that exists returns, reporting n rows inserted and ceil(n / b)
\* batches: the least number of batches of b that hold n records.
C25_BulkInsertCounts ==
    \A t \in Tables, data \in UniformData, b \in BatchSizes :
        t \in engine["a.db"].content =>
        LET r == bulk_insert(World, active_transactions, "a.db", t, data, b)
            n == Len(data)
        IN  /\ r.ok
            /\ r.inserted = n
            /\ r.batches * b >= n
            /\ (r.batches - 1) * b < n

\* Table t1 exists and holds rows of an earlier bulk insert; three records in
\* batches of two are reported as 3 inserted in 2 batches.
C25_Witness ==
    /\ {"t1", "r1"} \subseteq engine["a.db"].disk
    /\ LET r == bulk_insert(World, active_transactions, "a.db", "t1",
                            <<Record("r1"), Record("r2"), Record("r1")>>, 2)
       IN  r.ok /\ r.inserted = 3 /\ r.batches = 2

\* The savepoints open on the handle of a.db are sp_0 .. sp_{n-1}, oldest
\* first, for the tracked depth n, and none without a TransactionState.
SavepointsMatchDepth ==
    LET names == [i \in 1..Len(engine["a.db"].sps) |-> engine["a.db"].sps[i].name]
    IN  IF has_active_transaction("a.db")
        THEN names = [i \in 1..active_transactions["a.db"].savepoint_count |-> i - 1]
        ELSE names = <<>>

\* C26: after every begin, commit and rollback the savepoints open on the
\* engine handle are exactly sp_0 .. sp_{n-1} for the tracked depth n.
C26_SavepointsMatchDepth ==
    [][(\/ BeginTransaction("a.db")
        \/ CommitTransaction("a.db")
        \/ RollbackTransaction("a.db")) => SavepointsMatchDepth']_vars

\* The caller rolls back k times, or until the path has no TransactionState or
\* a rollback fails.
RECURSIVE RollbackOut(_, _, _, _)
RollbackOut(w, txs, p, k) ==
    IF k = 0 \/ txs[p] = NoTxn THEN [w |-> w, txs |-> txs]
    ELSE LET r == rollback_transaction(w, txs, p)
         IN  IF ~r.ok THEN [w |-> r.w, txs |-> r.txs]
             ELSE RollbackOut(r.w, r.txs, p, k - 1)

\* C27: inside an open top-level transaction, after a nested begin and a
\* statement, a rollback returns to the depth before the nested begin with the
\* connection's view as it was at that begin, earlier statements still
\* pending and nothing durable; a commit instead keeps the statement pending,
\* makes nothing durable and reports 0 changes, and rolling the transaction
\* back afterwards leaves the disk and the view as the disk was.
C27_NestedLevelsAreSavepoints ==
    LET p == "a.db"
        before == engine[p]
        depth == active_transactions[p].savepoint_count
        b == begin_transaction(World, active_transactions, p)
    IN  (has_active_transaction(p) /\ before.txn = "begin" /\ b.ok) =>
        \A stmt \in Stmts :
            LET x == execute_query(b.w, p, stmt)
                r == rollback_transaction(x.w, b.txs, p)
                c == commit_transaction(x.w, b.txs, p)
                out == RollbackOut(c.w, c.txs, p, depth + 1)
            IN  /\ b.txs[p].savepoint_count = depth + 1
                /\ r.ok /\ r.txs[p] # NoTxn
                /\ r.txs[p].savepoint_count = depth
                /\ r.w.e[p].content = before.content
                /\ r.w.e[p].disk = before.disk
                /\ r.w.e[p].txn = "begin"
                /\ c.ok /\ c.changes = 0 /\ c.txs[p] # NoTxn
                /\ c.txs[p].savepoint_count = depth
                /\ c.w.e[p].content = x.w.e[p].content
                /\ c.w.e[p].disk = before.disk
                /\ c.w.e[p].txn = "begin"
                /\ out.txs[p] = NoTxn
                /\ out.w.e[p].txn = "none"
                /\ out.w.e[p].disk = before.disk
                /\ out.w.e[p].content = before.disk

\* One nested level is open inside a top-level transaction, with a statement
\* pending that is not on disk, and a further nested begin returns.
C27_Witness ==
    /\ has_active_transaction("a.db")
    /\ active_transactions["a.db"].savepoint_count = 1
    /\ engine["a.db"].txn = "begin"
    /\ engine["a.db"].content # engine["a.db"].disk
    /\ "t1" \in engine["a.db"].disk
    /\ begin_transaction(World, active_transactions, "a.db").ok

\* C28: in every reachable state, a path with a TransactionState has a handle
\* in the pool, and the transaction its begin started is open on that handle.
C28_TransactionStateHasHandle ==
    \A p \in Paths :
        has_active_transaction(p) =>
            /\ connections[p] # NoConn
            /\ engine[p].txn = "begin"

\* C29: while a request is between its acquisition of the handle and its
\* return, the handle it holds is the open handle of the pool, and the timer
\* callback never runs between the two.
C29_NoMaintenanceMidRequest ==
    running # Idle => HandleOpen(running)

\* A commit request holds a handle that was opened after the timer callback
\* closed an earlier one, past the idle timeout, on its way to running COMMIT.
C29_Witness ==
    /\ running # Idle
    /\ running.op = "commit"
    /\ running.db[2] > 1
    /\ now > idle_timeout_minutes
    /\ engine["a.db"].txn = "none"

\* C30: on a path without a TransactionState, when a schema batch or a bulk
\* insert has returned, with its result or with an error, the engine handle
\* has no transaction and no savepoint open.
C30_AdHocTransactionEnds ==
    LET p == "a.db"
        Ended(w) == w.e[p].txn = "none" /\ w.e[p].sps = <<>>
    IN  ~has_active_transaction(p) =>
        /\ \A b \in Batches :
               Ended(execute_schema_statements(World, active_transactions, p, b).w)
        /\ \A t \in Tables, data \in DataSets, batch_size \in BatchSizes :
               Ended(bulk_insert(World, active_transactions, p, t, data,
                                 batch_size).w)

\* With no TransactionState, table t1 on disk and the handle pooled, a batch
\* fails at its second statement and a bulk insert at its second record.
C30_Witness ==
    /\ ~has_active_transaction("a.db")
    /\ connections["a.db"] # NoConn
    /\ engine["a.db"].disk = {"t1"}
    /\ ~execute_schema_statements(World, active_transactions, "a.db",
                                  <<CreateTable("t2"), MalformedCreate>>).ok
    /\ ~bulk_insert(World, active_transactions, "a.db", "t1",
                    <<Record("r1"), RejectedRecord>>, 1).ok

\* ------------------------------------------------- functions on their own
\* A SQL text as the splitter sees it: a sequence of tokens.  "stmt" is
\* statement text, "nl" a line break, ";" a semicolon, "--" opens a line
\* comment, "/*" and "*/" open and close a block comment.
SqlSources == SeqsUpTo({"stmt", ";", "--", "nl", "/*", "*/"}, MaxTokens)

\* sql.split(';'): the chunks between the semicolons, empty ones included.
SplitSemicolons(sql) ==
    LET RECURSIVE Go(_, _, _)
        Go(i, chunk, done) ==
            IF i > Len(sql) THEN Append(done, chunk)
            ELSE IF sql[i] = ";" THEN Go(i + 1, <<>>, Append(done, chunk))
            ELSE Go(i + 1, Append(chunk, sql[i]), done)
    IN  Go(1, <<>>, <<>>)

\* replace(/--[^\n]*/g, '') and then replace(/\/\*[\s\S]*?\*\//g, ''): a line
\* comment runs up to the line break, which stays; a block comment runs to
\* the first "*/" after it, and a "/*" that is never closed stays as text.
StripComments(s) ==
    LET RECURSIVE Line(_, _, _)
        Line(t, i, inside) ==
            IF i > Len(t) THEN <<>>
            ELSE IF inside
                 THEN IF t[i] = "nl" THEN <<t[i]>> \o Line(t, i + 1, FALSE)
                      ELSE Line(t, i + 1, TRUE)
            ELSE IF t[i] = "--" THEN Line(t, i + 1, TRUE)
            ELSE <<t[i]>> \o Line(t, i + 1, FALSE)
        Closes(t, i) == {j \in (i + 1)..Len(t) : t[j] = "*/"}
        First(S) == CHOOSE j \in S : \A k \in S : j <= k
        RECURSIVE Block(_, _)
        Block(t, i) ==
            IF i > Len(t) THEN <<>>
            ELSE IF t[i] = "/*" /\ Closes(t, i) # {}
                 THEN Block(t, First(Closes(t, i)) + 1)
            ELSE <<t[i]>> \o Block(t, i + 1)
    IN  Block(Line(s, 1, FALSE), 1)

\* String.prototype.trim(): white space at both ends goes.
Trim(s) ==
    LET Text == {i \in 1..Len(s) : s[i] # "nl"}
        Lo == CHOOSE i \in Text : \A k \in Text : i <= k
        Hi == CHOOSE i \in Text : \A k \in Text : i >= k
    IN  IF Text = {} THEN <<>> ELSE SubSeq(s, Lo, Hi)

\* parse_sql_statements on a text: split, clean each chunk, drop the empty.
parse_sql_text(sql) ==
    LET chunks == SplitSemicolons(sql)
        cleaned == [k \in 1..Len(chunks) |-> Trim(StripComments(chunks[k]))]
    IN  SelectSeq(cleaned, LAMBDA stmt : Len(stmt) > 0)

\* A call of parse_sql_statements returns.
ParseSqlStatements ==
    /\ running.op = "parse_sql_statements"
    /\ running' = [op |-> "returned", call |-> running,
                   value |-> parse_sql_text(running.sql)]
    /\ UNCHANGED <<connections, active_transactions, engine, file_exists, now,
                   handles_opened, txns_generated, max_connections, ctxvars>>

\* The parameter mappings of a query.  A key is a string: digits only (the
\* number it reads as, written plainly or, for 1, also with a leading zero) or
\* a name.
ParamMaps ==
    LET keys == [digits : {TRUE}, number : 0..MaxKey, padded : {FALSE}]
                    \cup {[digits |-> TRUE, number |-> 1, padded |-> TRUE],
                          [digits |-> FALSE, number |-> 0, padded |-> FALSE]}
    IN  UNION {[K -> {"x", "y"}] : K \in SUBSET keys}

\* convert_parameters whose array index is the key itself.
convert_parameters_zero_based(params) ==
    LET keys == DOMAIN params
        max_index == CHOOSE m \in {k.number : k \in keys} :
                         \A k \in keys : k.number <= m
        Slot(i) == IF \E k \in keys : k.number = i
                   THEN params[CHOOSE k \in keys : k.number = i
                                   /\ \A j \in keys : j.number = i => (j.padded => k.padded)]
                   ELSE "hole"
    IN  IF keys = {} THEN [type |-> "object", named |-> params, length |-> 0,
                           slots |-> <<>>]
        ELSE IF \A k \in keys : k.digits
        THEN [type |-> "array", named |-> <<>>, length |-> max_index,
              slots |-> [i \in 0..(max_index - 1) |-> Slot(i)]]
        ELSE [type |-> "object", named |-> params, length |-> 0, slots |-> <<>>]

\* convert_parameters(params): {} for an empty mapping; when every key is
\* made of digits, new Array(largest key) with the value of each key written
\* at parseInt(key) - 1; else the mapping itself.  Object.entries lists the
\* keys that are plain array indexes first, in ascending order, so a key
\* written with a leading zero is assigned after the plain key of the same
\* number.  An assignment at index -1 makes a property, not a slot, and a
\* slot that no key names is a hole.
convert_parameters(params) ==
    LET keys == DOMAIN params
        max_index == CHOOSE m \in {k.number : k \in keys} :
                         \A k \in keys : k.number <= m
        Slot(i) == IF \E k \in keys : k.number - 1 = i
                   THEN params[CHOOSE k \in keys : k.number - 1 = i
                                   /\ \A j \in keys : j.number - 1 = i => (j.padded => k.padded)]
                   ELSE "hole"
    IN  IF keys = {} THEN [type |-> "object", named |-> params, length |-> 0,
                           slots |-> <<>>]
        ELSE IF \A k \in keys : k.digits
        THEN [type |-> "array", named |-> <<>>, length |-> max_index,
              slots |-> [i \in 0..(max_index - 1) |-> Slot(i)]]
        ELSE [type |-> "object", named |-> params, length |-> 0, slots |-> <<>>]

\* A call of convert_parameters returns.
ConvertParameters ==
    /\ running.op = "convert_parameters"
    /\ running' = [op |-> "returned", call |-> running,
                   value |-> convert_parameters(running.params)]
    /\ UNCHANGED <<connections, active_transactions, engine, file_exists, now,
                   handles_opened, txns_generated, max_connections, ctxvars>>

\* One iteration of the batch loop of bulk_insert, the engine accepting every
\* record: batch = data.slice(i, i + batch_size) is visited record by record,
\* then i += batch_size.  slice counts a negative index from the end of the
\* array and cuts both indexes to the array.  visited: the records passed to
\* stmt.run so far, by their position in data.
BulkInsertBatch ==
    /\ running.op = "bulk_insert"
    /\ running.i < running.n
    /\ running.batch_count < MaxLoops
    /\ LET n == running.n
           Index(k) == IF k < 0 THEN (IF n + k < 0 THEN 0 ELSE n + k)
                       ELSE IF k > n THEN n ELSE k
           from == Index(running.i)
           to == Index(running.i + running.batch_size)
           batch == [k \in 1..(to - from) |-> from + k]
       IN  running' = [running EXCEPT !.i = @ + running.batch_size,
                                      !.visited = @ \o batch,
                                      !.batch_count = @ + 1]
    /\ UNCHANGED <<connections, active_transactions, engine, file_exists, now,
                   handles_opened, txns_generated, max_connections, ctxvars>>

\* The batch loop ends and bulk_insert returns.
BulkInsertReturn ==
    /\ running.op = "bulk_insert"
    /\ running.i >= running.n
    /\ running' = [op |-> "returned",
                   call |-> [op |-> "bulk_insert", n |-> running.n,
                             batch_size |-> running.batch_size],
                   value |-> [visited |-> running.visited,
                              batches |-> running.batch_count]]
    /\ UNCHANGED <<connections, active_transactions, engine, file_exists, now,
                   handles_opened, txns_generated, max_connections, ctxvars>>

\* A function is called on its own with one of the given inputs.
InitCall(calls) ==
    /\ connections = [p \in Paths |-> NoConn]
    /\ active_transactions = [p \in Paths |-> NoTxn]
    /\ engine = [p \in Paths |-> FreshEngine]
    /\ file_exists = [p \in Paths |-> FALSE]
    /\ now = 0
    /\ handles_opened = [p \in Paths |-> 0]
    /\ txns_generated = 0
    /\ max_connections = 1
    /\ SQLITE_ALLOW_ABSOLUTE_PATHS = TRUE
    /\ current_database = NoDatabase
    /\ running \in calls

\* The functions that turn the caller's input into what the engine is given.
NextCall ==
    \/ ParseSqlStatements
    \/ ConvertParameters
SpecCall ==
    /\ InitCall({[op |-> "parse_sql_statements", sql |-> sql] : sql \in SqlSources}
                    \cup {[op |-> "convert_parameters", params |-> params] :
                              params \in ParamMaps})
    /\ [][NextCall]_vars

\* bulk_insert entered with n records and a batch_size that nothing has
\* checked; once called, the function keeps running.
NextBatch ==
    \/ BulkInsertBatch
    \/ BulkInsertReturn
SpecBatch ==
    /\ InitCall({[op |-> "bulk_insert", n |-> n, batch_size |-> batch_size,
                  i |-> 0, visited |-> <<>>, batch_count |-> 0] :
                     n \in 1..MaxLoops,
                     batch_size \in (0 - MaxBatchSize)..MaxBatchSize})
    /\ [][NextBatch]_vars
    /\ WF_vars(NextBatch)

\* C31: the statements parse_sql_statements returns for a text are those of
\* the text with every comment removed first: a semicolon inside a comment
\* ends no statement.
C31_CommentsStrippedBeforeSplit ==
    [][ParseSqlStatements =>
         LET chunks == SplitSemicolons(StripComments(running.sql))
             trimmed == [k \in 1..Len(chunks) |-> Trim(chunks[k])]
         IN  running'.value = SelectSeq(trimmed, LAMBDA stmt : Len(stmt) > 0)]_vars

\* C32: a statement of a schema batch or a record of a bulk insert that fails
\* is reported with its 1-based position in the input, and for a batch
\* exactly position - 1 statements ran before it.
C32_FailuresNamePosition ==
    /\ \A b \in Batches :
           LET r == execute_schema_statements(World, active_transactions, "a.db", b)
           IN  r.failed_at # 0 =>
                   /\ r.position = r.failed_at
                   /\ r.executed = r.position - 1
    /\ \A data \in SeqsUpTo(Records \cup {PartialRecord, RejectedRecord},
                            MaxRecords) :
           LET r == bulk_insert(World, active_transactions, "a.db", "t1", data, 1)
           IN  r.failed_at # 0 => r.position = r.failed_at

\* C33: a begin, commit, rollback, schema batch, bulk insert or close on one
\* path leaves the TransactionState (savepoint depth included) and the pool
\* entry of every other path as they were.
C33_OtherPathsUntouched ==
    [][\A a \in Paths :
           (\/ BeginTransaction(a)
            \/ CommitTransaction(a)
            \/ RollbackTransaction(a)
            \/ CloseDatabase(a)
            \/ \E statements \in Batches : ExecuteSchemaStatements(a, statements)
            \/ \E t \in Tables, data \in DataSets, batch_size \in BatchSizes :
                   BulkInsert(a, t, data, batch_size))
           => \A b \in Paths \ {a} :
                  /\ active_transactions'[b] = active_transactions[b]
                  /\ connections'[b] = connections[b]]_vars

\* C34: idle eviction removes and closes every pool entry last used longer ago
\* than the idle timeout, leaves every other entry as it is and returns the
\* number of entries it removed; acquiring a path that has an entry returns
\* that entry's handle, sets its last use to the present and adds one to its
\* use count.
C34_IdleEvictionAndRefresh ==
    LET r == IdleLoop(World, PoolPaths(connections), {})
        old == {p \in Paths : /\ connections[p] # NoConn
                              /\ now - connections[p].last_used > idle_timeout_minutes}
    IN  /\ r.w = cleanup_idle_connections(World)
        /\ \A p \in old : /\ r.w.c[p] = NoConn
                          /\ r.w.e[p].txn = "none"
                          /\ r.w.e[p].content = engine[p].disk
        /\ \A p \in Paths \ old : r.w.c[p] = connections[p] /\ r.w.e[p] = engine[p]
        /\ r.cleaned = Cardinality(old)
        /\ \A p \in PoolPaths(connections) :
               LET o == open_database(World, p, TRUE)
               IN  /\ o.ok
                   /\ o.db = connections[p].database
                   /\ o.w.c[p].last_used = now
                   /\ o.w.c[p].use_count = connections[p].use_count + 1
                   /\ o.w.c[p].created_at = connections[p].created_at

\* Both paths are in the pool, one idle for longer than the timeout and one
\* acquired again after the clock moved.
C34_Witness ==
    /\ connections["a.db"] # NoConn
    /\ now - connections["a.db"].last_used > idle_timeout_minutes
    /\ connections["b.db"] # NoConn
    /\ connections["b.db"].last_used = now
    /\ connections["b.db"].created_at < now

\* C35: the three sweeps return whatever fails inside them, and a failure on
\* one path does not keep them from the other paths.  The stale-transaction
\* sweep has rolled back every stale transaction whose rollback can succeed
\* and counts those; idle eviction removes and counts every idle entry whose
\* handle closes, whichever other handles refuse to; the health check visits
\* every entry, removing those whose probe raises and keeping the others.
C35_SweepsGoOn ==
    /\ \A order \in PathOrders :
           LET r == cleanup_stale_transactions(World, active_transactions,
                                               max_age_minutes, order)
               stale == {p \in Paths : /\ active_transactions[p] # NoTxn
                                       /\ active_transactions[p].start_time
                                              < now - max_age_minutes}
               done == {p \in stale : r.txs[p] # active_transactions[p]}
           IN  /\ \A p \in stale \ done : ~rollback_transaction(r.w, r.txs, p).ok
               /\ \A p \in Paths \ stale : r.txs[p] = active_transactions[p]
               /\ r.cleaned = Cardinality(done)
    /\ \A stuck \in SUBSET Paths :
           LET r == IdleLoop(World, PoolPaths(connections), stuck)
               idle == IdleEntries(connections)
           IN  /\ \A p \in idle \ stuck : r.w.c[p] = NoConn
               /\ \A p \in Paths \ (idle \ stuck) : r.w.c[p] = connections[p]
               /\ r.cleaned = Cardinality(idle \ stuck)
    /\ \A broken \in SUBSET Paths :
           LET w == health_check_connections(World, broken)
               report == health_check_report(World, broken)
               pool == PoolPaths(connections)
           IN  /\ report.healthy = Cardinality(pool \ broken)
               /\ report.unhealthy = Cardinality(pool \cap broken)
               /\ \A p \in pool \cap broken : w.c[p] = NoConn
               /\ \A p \in Paths \ broken : w.c[p] = connections[p]

\* Both paths have a stale transaction.  The handle of a.db was closed under
\* it, so its rollback fails; that of b.db is idle in the pool and its
\* rollback succeeds.
C35_Witness ==
    /\ \A p \in Paths : /\ active_transactions[p] # NoTxn
                        /\ active_transactions[p].start_time < now - max_age_minutes
    /\ IdleEntries(connections) = {"b.db"}
    /\ max_connections = 2
    /\ ~rollback_transaction(World, active_transactions, "a.db").ok
    /\ rollback_transaction(World, active_transactions, "b.db").ok

\* C36: when the engine call of a begin, commit or rollback raises, the call
\* fails and the transaction map is what it was before the call: a failed
\* begin creates no state and raises no depth, a failed commit or rollback
\* neither lowers the depth nor removes the state.
C36_FailedEngineCallKeepsState ==
    \A p \in Paths :
        LET b == begin_transaction(World, active_transactions, p)
            c == commit_transaction(World, active_transactions, p)
            r == rollback_transaction(World, active_transactions, p)
            Kept(x) == (~x.ok /\ x.err = "engine") =>
                           /\ x.txs = active_transactions
                           /\ Len(x.cmds) = 1
        IN  Kept(b) /\ Kept(c) /\ Kept(r)

\* The transaction map holds a nested state whose savepoint the engine no
\* longer has (the handle was closed under it): RELEASE and ROLLBACK TO raise.
C36_Witness ==
    /\ has_active_transaction("a.db")
    /\ active_transactions["a.db"].savepoint_count > 0
    /\ LET c == commit_transaction(World, active_transactions, "a.db")
           r == rollback_transaction(World, active_transactions, "a.db")
       IN  /\ ~c.ok /\ c.err = "engine"
           /\ ~r.ok /\ r.err = "engine"

\* C37: validating a path that validation returned succeeds and returns the
\* same path, under either setting of SQLITE_ALLOW_ABSOLUTE_PATHS: the path a
\* handler has resolved is accepted again by open_database.
C37_ValidateIdempotent ==
    [][\A raw \in RawPaths :
           SetCurrentDatabase(raw) /\ validate_database_path(raw).ok =>
               LET resolved == current_database'.path
                   again == validate_database_path([abs |-> TRUE, segs |-> resolved])
               IN  again.ok /\ again.path = resolved]_vars

\* C38: a call of bulk_insert with one record or more returns, whatever
\* integer its batch_size is, and by then the batch loop has visited every
\* record once, in the order of the input.
C38_BulkInsertTerminates ==
    (running.op = "bulk_insert")
        ~> (/\ running.op = "returned"
            /\ running.call.op = "bulk_insert"
            /\ running.value.visited = [k \in 1..running.call.n |-> k])

C40_PositionalParameters ==
    (running.op = "returned" /\ running.call.op = "convert_parameters") =>
        LET params == running.call.params
            keys == DOMAIN params
            bound == running.value
        IN  IF keys = {} THEN bound.type = "object" /\ DOMAIN bound.named = {}
            ELSE IF \E k \in keys : ~k.digits
            THEN bound.type = "object" /\ bound.named = params
            ELSE (/\ \A k \in keys : k.number >= 1
                  /\ \A j, k \in keys : j.number = k.number => j = k)
                 => /\ bound.type = "array"
                    /\ bound.length >= 1
                    /\ \A k \in keys : k.number <= bound.length
                    /\ \E k \in keys : k.number = bound.length
                    /\ \A k \in keys : bound.slots[k.number - 1] = params[k]

\* convert_parameters has returned for the mapping {"1": x, "2": y}.
C40_Witness ==
    /\ running.op = "returned"
    /\ running.call.op = "convert_parameters"
    /\ {k.number : k \in DOMAIN running.call.params} = 1..MaxKey
    /\ \A k \in DOMAIN running.call.params : k.digits /\ ~k.padded
    /\ \E j, k \in DOMAIN running.call.params :
           running.call.params[j] # running.call.params[k]
    /\ running.value.type = "array"
====
